---- MODULE Spec2Model ----
(***************************************************************************)
(* Model of the indicator, scoring and classification code of stockitfy.   *)
(*                                                                         *)
(* Numbers of the JavaScript source are held as scaled integers:           *)
(*   - money (price, SMA, 52-week high/low) in mills (1/1000 dollar);      *)
(*     entryPoint/exitPoint, which the code rounds to 2 decimals, in cents;*)
(*   - percentages (priceVsSMA50, priceVsSMA200, nearLow, priceChange5d)   *)
(*     in 1/PctScale of a percent;                                         *)
(*   - volume ratios in hundredths;                                        *)
(*   - RSI in RSI points, the MACD histogram in arbitrary signed units.    *)
(* Every threshold of the source is scaled by the same factor at the place *)
(* it is compared.                                                         *)
(***************************************************************************)
EXTENDS Integers, Sequences, FiniteSets, TLC

VARIABLES
    scoreIn,    \* arguments of a direct calculateAIScore call
    scoreOut,   \* its return value, Idle before the call
    ratingIn,   \* a pair of scores handed to getRating
    ratingOut,  \* the pair of results, Idle before the call
    stock,      \* indicator values and quote of the stock a handler analyses
    analysis,   \* the object the handler returns, Idle before the request
    trendIn,    \* arguments of a detectTrend call
    trendOut,   \* its outcome, Idle before the call
    levelsIn,   \* arguments of a calculateSupportResistance call
    levelsOut,  \* the object it returns, Idle before the call
    predIn,     \* arguments of a generatePredictions / calculatePrediction call
    predOut,    \* what the call returns, Idle before the call
    indIn,      \* arguments of a call of one of the indicator functions
    indOut,     \* what the call returns, Idle before the call
    heap,       \* the arrays performAnalysis holds, by reference number
    memo,       \* per function: the arguments and results of its calls so far
    websocket,  \* client: the WebSocket the service holds (0: null), by number
    sockets,    \* client: readyState of every WebSocket created so far
    priceUpdateCallbacks,  \* client: the symbols that are keys of the map
    wsReconnectAttempts,   \* client: the counter of that name
    reconnectTimers,       \* client: pending setTimeout(connectWebSocket)
    sent,       \* client: <<socket, symbol>> of every subscribe message sent
    subscribed, \* client: the symbols the page has asked to subscribe to
    now,        \* server: Date.now(), in milliseconds
    clients,    \* server: per connection, its clientId and whether it is open
    subscriptions,  \* server: the Map of that name, clientId -> {ws, symbols}
    validQuotes,    \* server: the symbols of a broadcast awaiting its quotes
    delivered,  \* server: per connection, the symbols of the last quotes message
    asked,      \* server: per connection, the symbols it subscribed to and
                \* did not unsubscribe from
    currentSymbol,      \* analyzer: the state variable of that name
    currentStockData,   \* analyzer: the state variable of that name
    ohlcvData,          \* analyzer: the state variable of that name
    updateInterval,     \* analyzer: the id of the last interval timer set
    timers,     \* analyzer: the interval timers that are active
    displayed,  \* analyzer: the symbol of the data last displayed and analysed
    loads       \* analyzer: the calls of loadStock, each with its position

scoreFnVars == <<scoreIn, scoreOut>>
ratingVars == <<ratingIn, ratingOut>>
scoreVars == <<stock, analysis>>
trendVars == <<trendIn, trendOut>>
levelsVars == <<levelsIn, levelsOut>>
predVars == <<predIn, predOut>>
indVars == <<indIn, indOut>>
pureVars == <<heap, memo>>
clientVars == <<websocket, sockets, priceUpdateCallbacks, wsReconnectAttempts,
               reconnectTimers, sent, subscribed>>
serverVars == <<now, clients, subscriptions, validQuotes, delivered, asked>>
loadVars == <<currentSymbol, currentStockData, ohlcvData, updateInterval, timers, displayed, loads>>
appVars == <<pureVars, clientVars, serverVars, loadVars>>

vars == <<scoreFnVars, ratingVars, scoreVars, trendVars, levelsVars, predVars,
         indVars, appVars>>

\* The value of a variable whose operation has not run (or is not part of
\* the specification at hand).
Idle == <<>>

ScoreFnIdle == scoreIn = Idle /\ scoreOut = Idle
RatingIdle == ratingIn = Idle /\ ratingOut = Idle
ScoreIdle == stock = Idle /\ analysis = Idle
TrendIdle == trendIn = Idle /\ trendOut = Idle
LevelsIdle == levelsIn = Idle /\ levelsOut = Idle
PredIdle == predIn = Idle /\ predOut = Idle
IndIdle == indIn = Idle /\ indOut = Idle
PureIdle == heap = Idle /\ memo = Idle
ClientIdle ==
    /\ websocket = Idle /\ sockets = Idle /\ priceUpdateCallbacks = Idle
    /\ wsReconnectAttempts = Idle /\ reconnectTimers = Idle /\ sent = Idle
    /\ subscribed = Idle
ServerIdle ==
    /\ now = Idle /\ clients = Idle /\ subscriptions = Idle
    /\ validQuotes = Idle /\ delivered = Idle /\ asked = Idle
LoadIdle ==
    /\ currentSymbol = Idle /\ currentStockData = Idle /\ ohlcvData = Idle
    /\ updateInterval = Idle /\ timers = Idle /\ displayed = Idle /\ loads = Idle
AppIdle == PureIdle /\ ClientIdle /\ ServerIdle /\ LoadIdle

----------------------------------------------------------------------------
(* Arithmetic helpers                                                      *)

\* Math.round(num/den) for den > 0: nearest integer, halves towards +infinity.
MathRound(num, den) == (2 * num + den) \div (2 * den)

Min(a, b) == IF a < b THEN a ELSE b
Max(a, b) == IF a > b THEN a ELSE b

\* Percent scale: a percentage p is held as p * PctScale.
PctScale == 1000

\* ((a - b) / b) * 100, in 1/PctScale percent (floor; b > 0).
PctDiff(a, b) == ((a - b) * 100 * PctScale) \div b

----------------------------------------------------------------------------
(* ai-insights.js: score and rating                                        *)

MaxScore == 100

\* Sum of the additive adjustments, before rounding and clamping.
RawAIScore(rsi, macd, priceVsSMA50, priceVsSMA200, volumeTrend) ==
    LET s0 == 50
        s1 == IF rsi < 30 THEN s0 + 20
              ELSE IF rsi < 50 THEN s0 + 10
              ELSE IF rsi > 70 THEN s0 - 15
              ELSE IF rsi > 60 THEN s0 - 5
              ELSE s0
        s2 == IF macd.histogram > 0 THEN s1 + 15 ELSE s1 - 10
        s3 == IF priceVsSMA50 > 0 THEN s2 + 12 ELSE s2 - 8
        s4 == IF priceVsSMA200 > 0 THEN s3 + 12 ELSE s3 - 8
        s5 == IF volumeTrend > 110 THEN s4 + 6
              ELSE IF volumeTrend < 90 THEN s4 - 4
              ELSE s4
    IN  s5

calculateAIScore_noClamp(rsi, macd, priceVsSMA50, priceVsSMA200, volumeTrend) ==
    MathRound(RawAIScore(rsi, macd, priceVsSMA50, priceVsSMA200, volumeTrend), 1)

calculateAIScore_macdZeroPositive(rsi, macd, priceVsSMA50, priceVsSMA200, volumeTrend) ==
    LET m == [histogram |-> IF macd.histogram = 0 THEN 1 ELSE macd.histogram]
    IN  Max(0, Min(MaxScore,
            MathRound(RawAIScore(rsi, m, priceVsSMA50, priceVsSMA200, volumeTrend), 1)))

calculateAIScore(rsi, macd, priceVsSMA50, priceVsSMA200, volumeTrend) ==
    Max(0, Min(MaxScore,
        MathRound(RawAIScore(rsi, macd, priceVsSMA50, priceVsSMA200, volumeTrend), 1)))

getRating_strictStrongBuy(score) ==
    IF score > 80 THEN [rating |-> "Strong Buy", class |-> "strong-buy"]
    ELSE IF score >= 60 THEN [rating |-> "Buy", class |-> "buy"]
    ELSE IF score >= 40 THEN [rating |-> "Hold", class |-> "hold"]
    ELSE IF score >= 20 THEN [rating |-> "Sell", class |-> "sell"]
    ELSE [rating |-> "Strong Sell", class |-> "strong-sell"]

getRating(score) ==
    IF score >= 80 THEN [rating |-> "Strong Buy", class |-> "strong-buy"]
    ELSE IF score >= 60 THEN [rating |-> "Buy", class |-> "buy"]
    ELSE IF score >= 40 THEN [rating |-> "Hold", class |-> "hold"]
    ELSE IF score >= 20 THEN [rating |-> "Sell", class |-> "sell"]
    ELSE [rating |-> "Strong Sell", class |-> "strong-sell"]

----------------------------------------------------------------------------
(* Direct calls of calculateAIScore, over ordinary and extreme arguments   *)

Huge == 1000000

RsiArgs == {-Huge, -1, 0, 29, 30, 31, 49, 50, 51, 55, 59, 60, 61, 69, 70, 71,
            100, 101, Huge}
SignArgs == {-Huge, -1, 0, 1, Huge}
VolumeArgs == {-Huge, 0, 89, 90, 91, 100, 109, 110, 111, Huge}

ScoreArgs ==
    [rsi : RsiArgs, histogram : SignArgs, priceVsSMA50 : SignArgs,
     priceVsSMA200 : SignArgs, volumeTrend : VolumeArgs]

InitScoreFn ==
    /\ scoreIn \in ScoreArgs
    /\ scoreOut = Idle
    /\ RatingIdle /\ ScoreIdle /\ TrendIdle /\ LevelsIdle /\ PredIdle /\ IndIdle
    /\ AppIdle

CallCalculateAIScore ==
    /\ scoreOut = Idle
    /\ scoreOut' = <<calculateAIScore(scoreIn.rsi,
                                      [histogram |-> scoreIn.histogram],
                                      scoreIn.priceVsSMA50,
                                      scoreIn.priceVsSMA200,
                                      scoreIn.volumeTrend)>>
    /\ UNCHANGED <<scoreIn, ratingVars, scoreVars, trendVars, levelsVars,
                 predVars, indVars, appVars>>

NextScoreFn == CallCalculateAIScore

SpecScoreFn == InitScoreFn /\ [][NextScoreFn]_vars

----------------------------------------------------------------------------
(* Direct calls of getRating on a pair of scores                           *)

InitRating ==
    /\ ratingIn \in (0..MaxScore) \X (0..MaxScore)
    /\ ratingOut = Idle
    /\ ScoreFnIdle /\ ScoreIdle /\ TrendIdle /\ LevelsIdle /\ PredIdle /\ IndIdle
    /\ AppIdle

CallGetRating ==
    /\ ratingOut = Idle
    /\ ratingOut' = <<getRating(ratingIn[1]), getRating(ratingIn[2])>>
    /\ UNCHANGED <<ratingIn, scoreFnVars, scoreVars, trendVars, levelsVars,
                 predVars, indVars, appVars>>

NextRating == CallGetRating

SpecRating == InitRating /\ [][NextRating]_vars

----------------------------------------------------------------------------
(* ai-insights.js: analyzeAllStocks (per stock) and                        *)
(* GET /api/analyze-stock/:symbol                                          *)

EntryExitAllStocks_atOrAbove(currentPrice, sma50, high52w, low52w) ==
    IF currentPrice >= sma50
    THEN [entryPoint |-> MathRound(sma50, 10),
          exitPoint  |-> MathRound(high52w * 95, 1000)]
    ELSE [entryPoint |-> MathRound(low52w * 105, 1000),
          exitPoint  |-> MathRound(sma50, 10)]

\* Entry and exit points of analyzeAllStocks, in cents.
EntryExitAllStocks(currentPrice, sma50, high52w, low52w) ==
    IF currentPrice > sma50
    THEN [entryPoint |-> MathRound(sma50, 10),
          exitPoint  |-> MathRound(high52w * 95, 1000)]
    ELSE [entryPoint |-> MathRound(low52w * 105, 1000),
          exitPoint  |-> MathRound(sma50, 10)]

\* Entry and exit points of the single-stock route, in cents.
EntryExitAnalyzeStock(currentPrice, sma50, high52w, low52w) ==
    IF currentPrice > sma50
    THEN [entryPoint |-> MathRound(sma50, 10),
          exitPoint  |-> MathRound(high52w * 95, 1000)]
    ELSE [entryPoint |-> MathRound(low52w * 105, 1000),
          exitPoint  |-> MathRound(sma50, 10)]

CategoryAllStocks_watchoutFirst(rsi, macd, volumeRatio, priceChange5d, currentPrice, sma50, nearLow, aiScore) ==
    IF volumeRatio > 150 /\ priceChange5d > 3 * PctScale /\ rsi > 50 /\ rsi < 75
    THEN [category |-> "momentum", horizon |-> "short", riskLevel |-> "high"]
    ELSE IF rsi < 35 /\ currentPrice < sma50 /\ nearLow < 20 * PctScale
    THEN [category |-> "value", horizon |-> "long", riskLevel |-> "medium"]
    ELSE IF rsi > 72 \/ (aiScore < 35 /\ priceChange5d < -3 * PctScale)
    THEN [category |-> "watchout", horizon |-> "avoid", riskLevel |-> "very-high"]
    ELSE IF aiScore >= 70 /\ macd.histogram > 0 /\ currentPrice > sma50
    THEN [category |-> "daily", horizon |-> "medium", riskLevel |-> "low"]
    ELSE [category |-> "neutral", horizon |-> "hold", riskLevel |-> "medium"]

\* The category cascade of analyzeAllStocks.
CategoryAllStocks(rsi, macd, volumeRatio, priceChange5d, currentPrice, sma50, nearLow, aiScore) ==
    IF volumeRatio > 150 /\ priceChange5d > 3 * PctScale /\ rsi > 50 /\ rsi < 75
    THEN [category |-> "momentum", horizon |-> "short", riskLevel |-> "high"]
    ELSE IF rsi < 35 /\ currentPrice < sma50 /\ nearLow < 20 * PctScale
    THEN [category |-> "value", horizon |-> "long", riskLevel |-> "medium"]
    ELSE IF aiScore >= 70 /\ macd.histogram > 0 /\ currentPrice > sma50
    THEN [category |-> "daily", horizon |-> "medium", riskLevel |-> "low"]
    ELSE IF rsi > 72 \/ (aiScore < 35 /\ priceChange5d < -3 * PctScale)
    THEN [category |-> "watchout", horizon |-> "avoid", riskLevel |-> "very-high"]
    ELSE [category |-> "neutral", horizon |-> "hold", riskLevel |-> "medium"]

CategoryAnalyzeStock_weakBelow30(rsi, macd, volumeRatio, priceChange5d, currentPrice, sma50, aiScore) ==
    IF volumeRatio > 150 /\ priceChange5d > 3 * PctScale /\ rsi > 50 /\ rsi < 75
    THEN [category |-> "momentum", horizon |-> "short", riskLevel |-> "high"]
    ELSE IF rsi < 35 /\ currentPrice < sma50
    THEN [category |-> "value", horizon |-> "long", riskLevel |-> "medium"]
    ELSE IF aiScore >= 65 /\ macd.histogram > 0 /\ currentPrice > sma50
    THEN [category |-> "daily", horizon |-> "medium", riskLevel |-> "low"]
    ELSE IF rsi > 70 \/ aiScore < 30
    THEN [category |-> "watchout", horizon |-> "avoid", riskLevel |-> "very-high"]
    ELSE [category |-> "neutral", horizon |-> "hold", riskLevel |-> "medium"]

CategoryAnalyzeStock_dailyFrom70(rsi, macd, volumeRatio, priceChange5d, currentPrice, sma50, aiScore) ==
    IF volumeRatio > 150 /\ priceChange5d > 3 * PctScale /\ rsi > 50 /\ rsi < 75
    THEN [category |-> "momentum", horizon |-> "short", riskLevel |-> "high"]
    ELSE IF rsi < 35 /\ currentPrice < sma50
    THEN [category |-> "value", horizon |-> "long", riskLevel |-> "medium"]
    ELSE IF aiScore >= 70 /\ macd.histogram > 0 /\ currentPrice > sma50
    THEN [category |-> "daily", horizon |-> "medium", riskLevel |-> "low"]
    ELSE IF rsi > 70 \/ aiScore < 35
    THEN [category |-> "watchout", horizon |-> "avoid", riskLevel |-> "very-high"]
    ELSE [category |-> "neutral", horizon |-> "hold", riskLevel |-> "medium"]

\* The category cascade of GET /api/analyze-stock/:symbol.
CategoryAnalyzeStock(rsi, macd, volumeRatio, priceChange5d, currentPrice, sma50, aiScore) ==
    IF volumeRatio > 150 /\ priceChange5d > 3 * PctScale /\ rsi > 50 /\ rsi < 75
    THEN [category |-> "momentum", horizon |-> "short", riskLevel |-> "high"]
    ELSE IF rsi < 35 /\ currentPrice < sma50
    THEN [category |-> "value", horizon |-> "long", riskLevel |-> "medium"]
    ELSE IF aiScore >= 65 /\ macd.histogram > 0 /\ currentPrice > sma50
    THEN [category |-> "daily", horizon |-> "medium", riskLevel |-> "low"]
    ELSE IF rsi > 70 \/ aiScore < 35
    THEN [category |-> "watchout", horizon |-> "avoid", riskLevel |-> "very-high"]
    ELSE [category |-> "neutral", horizon |-> "hold", riskLevel |-> "medium"]

\* The object analyzeAllStocks builds for one stock.
AnalyzeAllStocksItem(s) ==
    LET macd == [histogram |-> s.histogram]
        nearLow == PctDiff(s.currentPrice, s.low52w)
        priceVsSMA50 == PctDiff(s.currentPrice, s.sma50)
        priceVsSMA200 == PctDiff(s.currentPrice, s.sma200)
        volumeTrend == s.volumeRatio
        aiScore == calculateAIScore(s.rsi, macd, priceVsSMA50, priceVsSMA200,
                                    volumeTrend)
        r == getRating(aiScore)
        ee == EntryExitAllStocks(s.currentPrice, s.sma50, s.high52w, s.low52w)
        c == CategoryAllStocks(s.rsi, macd, s.volumeRatio, s.priceChange5d,
                               s.currentPrice, s.sma50, nearLow, aiScore)
    IN  [site |-> "analyzeAllStocks",
         aiScore |-> aiScore, rating |-> r.rating, ratingClass |-> r.class,
         category |-> c.category, horizon |-> c.horizon,
         riskLevel |-> c.riskLevel,
         entryPoint |-> ee.entryPoint, exitPoint |-> ee.exitPoint]

\* The object GET /api/analyze-stock/:symbol answers with.
AnalyzeStockResponse(s) ==
    LET macd == [histogram |-> s.histogram]
        priceVsSMA50 == PctDiff(s.currentPrice, s.sma50)
        priceVsSMA200 == PctDiff(s.currentPrice, s.sma200)
        volumeTrend == s.volumeRatio
        aiScore == calculateAIScore(s.rsi, macd, priceVsSMA50, priceVsSMA200,
                                    volumeTrend)
        r == getRating(aiScore)
        ee == EntryExitAnalyzeStock(s.currentPrice, s.sma50, s.high52w, s.low52w)
        c == CategoryAnalyzeStock(s.rsi, macd, s.volumeRatio, s.priceChange5d,
                                  s.currentPrice, s.sma50, aiScore)
    IN  [site |-> "analyzeStock",
         aiScore |-> aiScore, rating |-> r.rating, ratingClass |-> r.class,
         category |-> c.category, horizon |-> c.horizon,
         riskLevel |-> c.riskLevel,
         entryPoint |-> ee.entryPoint, exitPoint |-> ee.exitPoint]

\* Indicator values and quote fields the handlers compute before scoring.
Prices == {48000, 50000, 52000}
Sma50s == {49995, 50000, 50005}
Sma200s == {47000, 53000}
High52s == {55100, 55555}
Low52s == {40000, 44444}
Rsis == {25, 34, 35, 50, 51, 65, 70, 71, 72, 73, 74, 75}
Histograms == {-1, 0, 1}
VolumeRatios == {85, 100, 111, 150, 151}
PriceChanges5d == {-4000, -3000, 0, 3000, 3001}

Stocks ==
    [rsi : Rsis, histogram : Histograms, currentPrice : Prices,
     sma50 : Sma50s, sma200 : Sma200s, high52w : High52s, low52w : Low52s,
     volumeRatio : VolumeRatios, priceChange5d : PriceChanges5d]

InitScore ==
    /\ stock \in Stocks
    /\ analysis = Idle
    /\ ScoreFnIdle /\ RatingIdle /\ TrendIdle /\ LevelsIdle /\ PredIdle /\ IndIdle
    /\ AppIdle

AnalyzeAllStocks ==
    /\ analysis = Idle
    /\ analysis' = AnalyzeAllStocksItem(stock)
    /\ UNCHANGED <<stock, scoreFnVars, ratingVars, trendVars, levelsVars,
                 predVars, indVars, appVars>>

AnalyzeStock ==
    /\ analysis = Idle
    /\ analysis' = AnalyzeStockResponse(stock)
    /\ UNCHANGED <<stock, scoreFnVars, ratingVars, trendVars, levelsVars,
                 predVars, indVars, appVars>>

NextScore == AnalyzeAllStocks \/ AnalyzeStock

SpecScore == InitScore /\ [][NextScore]_vars

----------------------------------------------------------------------------
(* global-markets.js: trend detection                                      *)
(*                                                                         *)
(* An array entry is null (Null) or a number v (<<v>>).  ADX is held in    *)
(* 1/AdxScale; a strength is held in 1/StrengthDen until it is rounded.    *)

Null == <<>>
Num(v) == <<v>>

\* ToNumber of an array entry, as the relational operators apply it:
\* null converts to 0.
ToNumber(x) == IF x = Null THEN 0 ELSE x[1]

JsGT(a, b) == ToNumber(a) > ToNumber(b)
JsLT(a, b) == ToNumber(a) < ToNumber(b)

AdxScale == 10
StrengthDen == 2 * AdxScale

TrendBranch_priceAtEma(latestEma9, latestEma21, latestEma50, adx, currentPrice) ==
    IF /\ JsGT(latestEma9, latestEma21) /\ JsGT(latestEma21, latestEma50)
       /\ ~JsLT(Num(currentPrice), latestEma9)
    THEN [direction |-> "UPTREND", colorClass |-> "uptrend",
          strength |-> Min(100 * StrengthDen, 5 * adx)]
    ELSE IF /\ JsLT(latestEma9, latestEma21) /\ JsLT(latestEma21, latestEma50)
            /\ JsLT(Num(currentPrice), latestEma9)
    THEN [direction |-> "DOWNTREND", colorClass |-> "downtrend",
          strength |-> Min(100 * StrengthDen, 5 * adx)]
    ELSE IF adx < 20 * AdxScale
    THEN [direction |-> "SIDEWAYS", colorClass |-> "sideways",
          strength |-> 100 * StrengthDen - 4 * adx]
    ELSE [direction |-> "SIDEWAYS", colorClass |-> "sideways",
          strength |-> Min(100 * StrengthDen, 4 * adx)]

TrendBranch_sidewaysBase(latestEma9, latestEma21, latestEma50, adx, currentPrice) ==
    IF /\ JsGT(latestEma9, latestEma21) /\ JsGT(latestEma21, latestEma50)
       /\ JsGT(Num(currentPrice), latestEma9)
    THEN [direction |-> "UPTREND", colorClass |-> "uptrend",
          strength |-> Min(100 * StrengthDen, 5 * adx)]
    ELSE IF /\ JsLT(latestEma9, latestEma21) /\ JsLT(latestEma21, latestEma50)
            /\ JsLT(Num(currentPrice), latestEma9)
    THEN [direction |-> "DOWNTREND", colorClass |-> "downtrend",
          strength |-> Min(100 * StrengthDen, 5 * adx)]
    ELSE [direction |-> "SIDEWAYS", colorClass |-> "sideways",
          strength |-> Min(100 * StrengthDen, 4 * adx)]

\* The if / else-if chain of detectTrend: direction and unrounded strength
\* (adx * 2.5 = 5 * adx / StrengthDen, adx * 2 = 4 * adx / StrengthDen).
TrendBranch(latestEma9, latestEma21, latestEma50, adx, currentPrice) ==
    IF /\ JsGT(latestEma9, latestEma21) /\ JsGT(latestEma21, latestEma50)
       /\ JsGT(Num(currentPrice), latestEma9)
    THEN [direction |-> "UPTREND", colorClass |-> "uptrend",
          strength |-> Min(100 * StrengthDen, 5 * adx)]
    ELSE IF /\ JsLT(latestEma9, latestEma21) /\ JsLT(latestEma21, latestEma50)
            /\ JsLT(Num(currentPrice), latestEma9)
    THEN [direction |-> "DOWNTREND", colorClass |-> "downtrend",
          strength |-> Min(100 * StrengthDen, 5 * adx)]
    ELSE IF adx < 20 * AdxScale
    THEN [direction |-> "SIDEWAYS", colorClass |-> "sideways",
          strength |-> 100 * StrengthDen - 4 * adx]
    ELSE [direction |-> "SIDEWAYS", colorClass |-> "sideways",
          strength |-> Min(100 * StrengthDen, 4 * adx)]

\* generateTrendExplanation calls toFixed on the three EMAs in the UPTREND
\* and DOWNTREND texts: a null among them raises a TypeError.
ExplanationThrows(direction, ema9, ema21, ema50) ==
    /\ direction \in {"UPTREND", "DOWNTREND"}
    /\ (ema9 = Null \/ ema21 = Null \/ ema50 = Null)

detectTrend(ema9, ema21, ema50, adx, currentPrice) ==
    LET latestEma9 == ema9[Len(ema9)]
        latestEma21 == ema21[Len(ema21)]
        latestEma50 == ema50[Len(ema50)]
        b == TrendBranch(latestEma9, latestEma21, latestEma50, adx, currentPrice)
    IN  IF ExplanationThrows(b.direction, latestEma9, latestEma21, latestEma50)
        THEN [threw |-> TRUE, error |-> "TypeError"]
        ELSE [threw |-> FALSE,
              direction |-> b.direction,
              strength |-> MathRound(b.strength, StrengthDen),
              colorClass |-> b.colorClass,
              ema9 |-> latestEma9, ema21 |-> latestEma21, ema50 |-> latestEma50]

MaxEma == 3

\* An EMA array as detectTrend sees it: an older entry and the latest one.
EmaEntries == {Null} \cup {Num(v) : v \in 1..MaxEma}
EmaArrays == {<<Null, e>> : e \in EmaEntries}

\* ADX values in [0,100]: every half point, and the tenths around 0, 20, 40.
AdxValues == {5 * a : a \in 0..200} \cup {1, 2, 3, 198, 199, 201, 202, 398, 399, 401, 402}

TrendArgs ==
    [ema9 : EmaArrays, ema21 : EmaArrays, ema50 : EmaArrays,
     adx : AdxValues, currentPrice : 0..(MaxEma + 1)]

InitTrend ==
    /\ trendIn \in TrendArgs
    /\ trendOut = Idle
    /\ ScoreFnIdle /\ RatingIdle /\ ScoreIdle /\ LevelsIdle /\ PredIdle /\ IndIdle
    /\ AppIdle

CallDetectTrend ==
    /\ trendOut = Idle
    /\ trendOut' = detectTrend(trendIn.ema9, trendIn.ema21, trendIn.ema50,
                               trendIn.adx, trendIn.currentPrice)
    /\ UNCHANGED <<trendIn, scoreFnVars, ratingVars, scoreVars, levelsVars,
                 predVars, indVars, appVars>>

NextTrend == CallDetectTrend

SpecTrend == InitTrend /\ [][NextTrend]_vars

----------------------------------------------------------------------------
(* global-markets.js: support and resistance                               *)
(*                                                                         *)
(* Bars carry integer prices.  The pivot is (high + low + close) / 3, so   *)
(* every level (pivot, R1..R3, S1..S3, swing points) and the price they    *)
(* are compared with are held in thirds of a price unit.                   *)

\* array.slice(-n)
LastN(seq, n) ==
    IF Len(seq) <= n THEN seq ELSE SubSeq(seq, Len(seq) - n + 1, Len(seq))

\* array.slice(0, n)
FirstN(seq, n) == IF Len(seq) <= n THEN seq ELSE SubSeq(seq, 1, n)

\* Math.max(...seq) and Math.min(...seq) of a non-empty array
MaxOf(seq) == CHOOSE m \in {seq[i] : i \in 1..Len(seq)} : \A i \in 1..Len(seq) : seq[i] <= m
MinOf(seq) == CHOOSE m \in {seq[i] : i \in 1..Len(seq)} : \A i \in 1..Len(seq) : seq[i] >= m

InsertAscending(x, sorted) ==
    LET k == Cardinality({i \in 1..Len(sorted) : sorted[i] <= x})
    IN  SubSeq(sorted, 1, k) \o <<x>> \o SubSeq(sorted, k + 1, Len(sorted))

InsertDescending(x, sorted) ==
    LET k == Cardinality({i \in 1..Len(sorted) : sorted[i] >= x})
    IN  SubSeq(sorted, 1, k) \o <<x>> \o SubSeq(sorted, k + 1, Len(sorted))

RECURSIVE SortAscending(_)
\* array.sort((a, b) => a - b)
SortAscending(seq) ==
    IF seq = <<>> THEN <<>>
    ELSE InsertAscending(Head(seq), SortAscending(Tail(seq)))

RECURSIVE SortDescending(_)
\* array.sort((a, b) => b - a)
SortDescending(seq) ==
    IF seq = <<>> THEN <<>>
    ELSE InsertDescending(Head(seq), SortDescending(Tail(seq)))

Lookback == 5

\* Whether the entry at (1-based) index j is pushed by the loop body.
IsSwingPoint(data, type, j) ==
    LET current == data[j]
        before == SubSeq(data, j - Lookback, j - 1)
        after == SubSeq(data, j + 1, j + Lookback)
    IN  IF type = "high"
        THEN /\ \A k \in 1..Len(before) : before[k] <= current
             /\ \A k \in 1..Len(after) : after[k] <= current
        ELSE /\ \A k \in 1..Len(before) : before[k] >= current
             /\ \A k \in 1..Len(after) : after[k] >= current

RECURSIVE SwingFrom(_, _, _)
\* The loop of findSwingPoints from (1-based) index j on; the 0-based loop
\* runs over lookback <= i < data.length - lookback.
SwingFrom(data, type, j) ==
    IF j > Len(data) - Lookback THEN <<>>
    ELSE (IF IsSwingPoint(data, type, j) THEN <<data[j]>> ELSE <<>>)
         \o SwingFrom(data, type, j + 1)

findSwingPoints_skipsFirst(data, type) == SwingFrom(data, type, Lookback + 2)

findSwingPoints(data, type) == SwingFrom(data, type, Lookback + 1)

Thirds(seq) == [i \in 1..Len(seq) |-> 3 * seq[i]]

\* filter(level > currentPrice).sort(ascending).slice(0, 3)
ResistanceLevels(candidates, currentPrice) ==
    FirstN(SortAscending(SelectSeq(candidates, LAMBDA level : level > currentPrice)), 3)

SupportLevels_ascending(candidates, currentPrice) ==
    FirstN(SortAscending(SelectSeq(candidates, LAMBDA level : level < currentPrice)), 3)

\* filter(level < currentPrice).sort(descending).slice(0, 3)
SupportLevels(candidates, currentPrice) ==
    FirstN(SortDescending(SelectSeq(candidates, LAMBDA level : level < currentPrice)), 3)

PivotLevels_r1FromHigh(high, low, close) ==
    LET pivot == high + low + close
    IN  [pivot |-> pivot,
         r1 |-> 2 * pivot - 3 * high,
         r2 |-> pivot + 3 * (high - low),
         r3 |-> 3 * high + 2 * (pivot - 3 * low),
         s1 |-> 2 * pivot - 3 * high,
         s2 |-> pivot - 3 * (high - low),
         s3 |-> 3 * low - 2 * (3 * high - pivot)]

\* The pivot levels, in thirds, from the high, low and close of the window.
PivotLevels(high, low, close) ==
    LET pivot == high + low + close
    IN  [pivot |-> pivot,
         r1 |-> 2 * pivot - 3 * low,
         r2 |-> pivot + 3 * (high - low),
         r3 |-> 3 * high + 2 * (pivot - 3 * low),
         s1 |-> 2 * pivot - 3 * high,
         s2 |-> pivot - 3 * (high - low),
         s3 |-> 3 * low - 2 * (3 * high - pivot)]

\* currentPrice is given in thirds; the returned levels are in thirds.
calculateSupportResistance(highs, lows, closes, currentPrice) ==
    LET recentHighs == LastN(highs, 50)
        recentLows == LastN(lows, 50)
        recentCloses == LastN(closes, 50)
        high == MaxOf(LastN(recentHighs, 20))
        low == MinOf(LastN(recentLows, 20))
        close == recentCloses[Len(recentCloses)]
        p == PivotLevels(high, low, close)
        swingHighs == findSwingPoints(recentHighs, "high")
        swingLows == findSwingPoints(recentLows, "low")
    IN  [resistance |-> ResistanceLevels(<<p.r1, p.r2, p.r3>> \o Thirds(swingHighs),
                                         currentPrice),
         support |-> SupportLevels(<<p.s1, p.s2, p.s3>> \o Thirds(swingLows),
                                   currentPrice),
         pivot |-> p.pivot]

MaxPx == 2
LeadLen == 40

\* Bars with low <= close <= high and a range of at most one price step.
BarTypes ==
    {b \in [high : 1..MaxPx, low : 1..MaxPx, close : 1..MaxPx] :
        b.low <= b.close /\ b.close <= b.high /\ b.high - b.low \in {0, 1}}

\* A run of equal bars is a single bar or just longer than the lookback.
RunLens == {1, Lookback + 1}

Repeat(b, n) == [i \in 1..n |-> b]

\* Histories: an optional flat lead of LeadLen bars, then three runs of bars
\* (3 to 18 bars without the lead, up to 18 + LeadLen with it).
Histories ==
    {Repeat(b1, lead + r1) \o Repeat(b2, r2) \o Repeat(b3, r3) :
        <<b1, b2, b3>> \in BarTypes \X BarTypes \X BarTypes,
        <<r1, r2, r3>> \in RunLens \X RunLens \X RunLens,
        lead \in {0, LeadLen}}

InitLevels ==
    /\ levelsIn \in [historical : Histories, currentPrice : 0..(MaxPx + 1)]
    /\ levelsOut = Idle
    /\ ScoreFnIdle /\ RatingIdle /\ ScoreIdle /\ TrendIdle /\ PredIdle /\ IndIdle
    /\ AppIdle

CallCalculateSupportResistance ==
    /\ levelsOut = Idle
    /\ LET h == levelsIn.historical
           highs == [i \in 1..Len(h) |-> h[i].high]
           lows == [i \in 1..Len(h) |-> h[i].low]
           closes == [i \in 1..Len(h) |-> h[i].close]
       IN  levelsOut' = calculateSupportResistance(highs, lows, closes,
                                                   3 * levelsIn.currentPrice)
    /\ UNCHANGED <<levelsIn, scoreFnVars, ratingVars, scoreVars, trendVars,
                 predVars, indVars, appVars>>

NextLevels == CallCalculateSupportResistance

SpecLevels == InitLevels /\ [][NextLevels]_vars

----------------------------------------------------------------------------
(* Claims about calculateAIScore and getRating                             *)

\* C1: calculateAIScore returns an integer in [0,100] for every combination
\* of its inputs, however extreme.
C1_ScoreInRange ==
    scoreOut # Idle => scoreOut[1] \in 0..100

\* A call whose unclamped sum exceeds 100 has been answered.
C1_Witness ==
    /\ scoreOut # Idle
    /\ scoreIn.rsi = -Huge /\ scoreIn.histogram = Huge
    /\ scoreIn.priceVsSMA50 = Huge /\ scoreIn.priceVsSMA200 = Huge
    /\ scoreIn.volumeTrend = Huge
    /\ scoreOut[1] = 100

C2_aRsi(rsi) ==
    CASE rsi < 30 -> 20
      [] 30 <= rsi /\ rsi < 50 -> 10
      [] rsi > 70 -> -15
      [] 60 < rsi /\ rsi <= 70 -> -5
      [] 50 <= rsi /\ rsi <= 60 -> 0

C2_aSign(v, up, down) == IF v > 0 THEN up ELSE down

C2_aVol(v) ==
    CASE v > 110 -> 6
      [] v < 90 -> -4
      [] OTHER -> 0

C2_Clamp(x, lo, hi) == IF x < lo THEN lo ELSE IF x > hi THEN hi ELSE x

\* C2: calculateAIScore returns clamp(50 + aRsi + aMacd + a50 + a200 + aVol,
\* 0, 100) with the adjustments of the table (histogram = 0 counts as -10).
C2_ScoreFormula ==
    scoreOut # Idle =>
        scoreOut[1] = C2_Clamp(50 + C2_aRsi(scoreIn.rsi)
                                  + C2_aSign(scoreIn.histogram, 15, -10)
                                  + C2_aSign(scoreIn.priceVsSMA50, 12, -8)
                                  + C2_aSign(scoreIn.priceVsSMA200, 12, -8)
                                  + C2_aVol(scoreIn.volumeTrend), 0, 100)

\* A call with histogram exactly 0 (and everything else neutral or positive)
\* has been answered with the -10 adjustment: 50 + 0 - 10 + 12 + 12 + 0.
C2_Witness ==
    /\ scoreOut # Idle
    /\ scoreIn.histogram = 0 /\ scoreIn.rsi = 55
    /\ scoreIn.priceVsSMA50 = 1 /\ scoreIn.priceVsSMA200 = 1
    /\ scoreIn.volumeTrend = 100
    /\ scoreOut[1] = 64

C3_Rank(r) ==
    CASE r = "Strong Sell" -> 0
      [] r = "Sell" -> 1
      [] r = "Hold" -> 2
      [] r = "Buy" -> 3
      [] r = "Strong Buy" -> 4

C3_Bucket(score, r) ==
    /\ r \in {"Strong Buy", "Buy", "Hold", "Sell", "Strong Sell"}
    /\ (r = "Strong Buy" <=> score >= 80)
    /\ (r = "Buy" <=> (60 <= score /\ score <= 79))
    /\ (r = "Hold" <=> (40 <= score /\ score <= 59))
    /\ (r = "Sell" <=> (20 <= score /\ score <= 39))
    /\ (r = "Strong Sell" <=> score <= 19)

\* C3: getRating maps every integer score in 0..100 to exactly one of the
\* five ratings by the cutoffs 80/60/40/20, and a higher score never gets a
\* lower rating than a smaller score.
C3_RatingBuckets ==
    ratingOut # Idle =>
        /\ C3_Bucket(ratingIn[1], ratingOut[1].rating)
        /\ C3_Bucket(ratingIn[2], ratingOut[2].rating)
        /\ (ratingIn[1] <= ratingIn[2] =>
                C3_Rank(ratingOut[1].rating) <= C3_Rank(ratingOut[2].rating))

\* The boundary pair 79/80 has been rated Buy and Strong Buy.
C3_Witness ==
    /\ ratingOut # Idle
    /\ ratingIn = <<79, 80>>
    /\ ratingOut[1].rating = "Buy" /\ ratingOut[2].rating = "Strong Buy"

----------------------------------------------------------------------------
(* Claims about the category cascade and the entry/exit points             *)
(* (percent thresholds are stated by cross-multiplication, money in mills) *)

Cat_AllStocks == analysis.site = "analyzeAllStocks"

\* momentum: volumeRatio > 1.5 AND priceChange5d > 3 AND 50 < RSI < 75.
Cat_Momentum ==
    /\ stock.volumeRatio > 150 /\ stock.priceChange5d > 3000
    /\ 50 < stock.rsi /\ stock.rsi < 75

\* value: RSI < 35 AND price < SMA50, and in analyzeAllStocks also less than
\* 20% above the 52-week low.
Cat_Value ==
    /\ stock.rsi < 35 /\ stock.currentPrice < stock.sma50
    /\ (Cat_AllStocks =>
            (stock.currentPrice - stock.low52w) * 100 < 20 * stock.low52w)

\* daily: score >= 70 (analyze-stock route: 65) AND histogram > 0 AND
\* price > SMA50.
Cat_Daily ==
    /\ analysis.aiScore >= (IF Cat_AllStocks THEN 70 ELSE 65)
    /\ stock.histogram > 0 /\ stock.currentPrice > stock.sma50

\* watchout as each call site tests it.
Cat_Watchout ==
    IF Cat_AllStocks
    THEN stock.rsi > 72 \/ (analysis.aiScore < 35 /\ stock.priceChange5d < -3000)
    ELSE stock.rsi > 70 \/ analysis.aiScore < 35

\* C4: at both call sites the category is the first matching rule in the
\* order momentum, value, daily, watchout, neutral: always one of the five
\* labels, momentum wins over daily and watchout, daily wins over watchout.
C4_FirstMatchWins ==
    analysis # Idle =>
        /\ analysis.category \in {"momentum", "value", "daily", "watchout", "neutral"}
        /\ (Cat_Momentum => analysis.category = "momentum")
        /\ (analysis.category = "momentum" => Cat_Momentum)
        /\ (analysis.category = "value" => Cat_Value /\ ~Cat_Momentum)
        /\ (analysis.category = "daily" =>
                Cat_Daily /\ ~Cat_Momentum /\ ~Cat_Value)
        /\ (analysis.category = "watchout" =>
                Cat_Watchout /\ ~Cat_Momentum /\ ~Cat_Value /\ ~Cat_Daily)
        /\ (analysis.category = "neutral" =>
                ~Cat_Momentum /\ ~Cat_Value /\ ~Cat_Daily /\ ~Cat_Watchout)
        /\ (Cat_Daily /\ Cat_Watchout /\ ~Cat_Momentum /\ ~Cat_Value =>
                analysis.category = "daily")

\* analyzeAllStocks met a stock for which both daily and watchout hold and
\* labelled it daily.
C4_Witness ==
    /\ analysis # Idle
    /\ Cat_AllStocks
    /\ Cat_Daily /\ Cat_Watchout /\ ~Cat_Momentum /\ ~Cat_Value
    /\ analysis.category = "daily"

\* The analyze-stock route met a stock for which momentum, daily and
\* watchout all hold and labelled it momentum.
C4_WitnessMomentum ==
    /\ analysis # Idle
    /\ ~Cat_AllStocks
    /\ Cat_Momentum /\ Cat_Daily /\ Cat_Watchout
    /\ analysis.category = "momentum"

\* C5 as claimed: at both call sites, when none of momentum, value and daily
\* matches, the category is watchout whenever RSI > 70 or score < 35, and
\* neutral otherwise.
C5_Original ==
    (analysis # Idle /\ ~Cat_Momentum /\ ~Cat_Value /\ ~Cat_Daily) =>
        analysis.category =
            (IF stock.rsi > 70 \/ analysis.aiScore < 35 THEN "watchout"
             ELSE "neutral")

\* C5 (amended): when none of momentum, value and daily matches, the
\* analyze-stock route answers watchout whenever RSI > 70 or score < 35, and
\* analyzeAllStocks answers watchout whenever RSI > 72 or (score < 35 and
\* priceChange5d < -3); either answers neutral otherwise.
C5_WatchoutPerSite ==
    (analysis # Idle /\ ~Cat_Momentum /\ ~Cat_Value /\ ~Cat_Daily) =>
        analysis.category =
            (IF Cat_AllStocks
             THEN (IF stock.rsi > 72
                      \/ (analysis.aiScore < 35 /\ stock.priceChange5d < -3000)
                   THEN "watchout" ELSE "neutral")
             ELSE (IF stock.rsi > 70 \/ analysis.aiScore < 35
                   THEN "watchout" ELSE "neutral"))

\* analyzeAllStocks met a stock with RSI 71 that no earlier rule matches and
\* labelled it neutral.
C5_Witness ==
    /\ analysis # Idle
    /\ Cat_AllStocks
    /\ ~Cat_Momentum /\ ~Cat_Value /\ ~Cat_Daily
    /\ stock.rsi = 71
    /\ analysis.category = "neutral"

\* C6: when neither momentum nor value matches and the score is >= 70 with
\* histogram > 0 and price > SMA50, the category is daily; at the
\* analyze-stock route already from score >= 65.
C6_DailyPick ==
    (/\ analysis # Idle
     /\ ~Cat_Momentum /\ ~Cat_Value
     /\ stock.histogram > 0 /\ stock.currentPrice > stock.sma50
     /\ analysis.aiScore >= (IF Cat_AllStocks THEN 70 ELSE 65))
        => analysis.category = "daily"

\* The analyze-stock route labelled a stock with a score in 65..69 daily.
C6_Witness ==
    /\ analysis # Idle
    /\ ~Cat_AllStocks
    /\ ~Cat_Momentum /\ ~Cat_Value
    /\ stock.histogram > 0 /\ stock.currentPrice > stock.sma50
    /\ analysis.aiScore >= 65 /\ analysis.aiScore < 70
    /\ analysis.category = "daily"

\* analyzeAllStocks labelled a stock with a score of at least 70 daily.
C6_WitnessAllStocks ==
    /\ analysis # Idle
    /\ Cat_AllStocks
    /\ ~Cat_Momentum /\ ~Cat_Value
    /\ stock.histogram > 0 /\ stock.currentPrice > stock.sma50
    /\ analysis.aiScore >= 70
    /\ analysis.category = "daily"

\* cents is num/den mills rounded to 2 decimals (the nearest cent).
C7_Rounded2(cents, num, den) ==
    /\ 2 * (cents * 10 * den - num) <= 10 * den
    /\ 2 * (num - cents * 10 * den) <= 10 * den

\* C7: whatever the category, at both call sites: if price > SMA50 then
\* entry = SMA50 and exit = 0.95 x 52-week high, otherwise entry = 1.05 x
\* 52-week low and exit = SMA50, each rounded to 2 decimals.
C7_EntryExit ==
    analysis # Idle =>
        IF stock.currentPrice > stock.sma50
        THEN /\ C7_Rounded2(analysis.entryPoint, stock.sma50, 1)
             /\ C7_Rounded2(analysis.exitPoint, stock.high52w * 95, 100)
        ELSE /\ C7_Rounded2(analysis.entryPoint, stock.low52w * 105, 100)
             /\ C7_Rounded2(analysis.exitPoint, stock.sma50, 1)

\* analyzeAllStocks handled a stock whose price equals its SMA50 and took the
\* "otherwise" branch: entry 1.05 x 44.444 = 46.67, exit 50.00.
C7_Witness ==
    /\ analysis # Idle
    /\ Cat_AllStocks
    /\ stock.currentPrice = 50000 /\ stock.sma50 = 50000
    /\ stock.low52w = 44444
    /\ analysis.entryPoint = 4667 /\ analysis.exitPoint = 5000

----------------------------------------------------------------------------
(* Claims about detectTrend                                                *)

Trend_e9 == trendIn.ema9[Len(trendIn.ema9)]
Trend_e21 == trendIn.ema21[Len(trendIn.ema21)]
Trend_e50 == trendIn.ema50[Len(trendIn.ema50)]

Trend_Numeric == Trend_e9 # Null /\ Trend_e21 # Null /\ Trend_e50 # Null

Trend_Up ==
    /\ Trend_e9[1] > Trend_e21[1] /\ Trend_e21[1] > Trend_e50[1]
    /\ trendIn.currentPrice > Trend_e9[1]

Trend_Down ==
    /\ Trend_e9[1] < Trend_e21[1] /\ Trend_e21[1] < Trend_e50[1]
    /\ trendIn.currentPrice < Trend_e9[1]

\* C8: on numeric latest EMAs detectTrend returns UPTREND iff
\* ema9 > ema21 > ema50 and price > ema9, otherwise DOWNTREND iff
\* ema9 < ema21 < ema50 and price < ema9, and SIDEWAYS in every other case,
\* whatever the ADX value.
C8_Direction ==
    (trendOut # Idle /\ Trend_Numeric) =>
        /\ ~trendOut.threw
        /\ trendOut.direction =
              (IF Trend_Up THEN "UPTREND"
               ELSE IF Trend_Down THEN "DOWNTREND"
               ELSE "SIDEWAYS")

\* An UPTREND was returned although ADX is below 20.
C8_Witness ==
    /\ trendOut # Idle /\ Trend_Numeric
    /\ Trend_Up /\ trendIn.adx < 20 * AdxScale
    /\ ~trendOut.threw /\ trendOut.direction = "UPTREND"

\* The strength of the branch that matched, times StrengthDen.
C9_Exact ==
    IF trendOut.direction \in {"UPTREND", "DOWNTREND"}
    THEN (IF 5 * trendIn.adx < 100 * StrengthDen THEN 5 * trendIn.adx
          ELSE 100 * StrengthDen)
    ELSE IF trendIn.adx < 20 * AdxScale
    THEN 100 * StrengthDen - 4 * trendIn.adx
    ELSE (IF 4 * trendIn.adx < 100 * StrengthDen THEN 4 * trendIn.adx
          ELSE 100 * StrengthDen)

\* C9 as claimed: the returned strength is exactly min(100, ADX x 2.5) for
\* UPTREND and DOWNTREND, 100 - ADX x 2 for SIDEWAYS with ADX < 20 and
\* min(100, ADX x 2) for SIDEWAYS with ADX >= 20, and lies in [0,100].
C9_Original ==
    (trendOut # Idle /\ ~trendOut.threw) =>
        /\ trendOut.strength * StrengthDen = C9_Exact
        /\ 0 <= trendOut.strength /\ trendOut.strength <= 100

\* C9 (amended): the returned strength is that branch-dependent value
\* rounded to the nearest integer (halves up), and lies in [0,100] for every
\* ADX in [0,100].
C9_StrengthRounded ==
    (trendOut # Idle /\ ~trendOut.threw) =>
        /\ 2 * trendOut.strength * StrengthDen <= 2 * C9_Exact + StrengthDen
        /\ 2 * C9_Exact + StrengthDen < 2 * (trendOut.strength + 1) * StrengthDen
        /\ trendOut.strength \in 0..100

\* SIDEWAYS was reached through the ADX < 20 branch with ADX 19.9:
\* 100 - 39.8 = 60.2, returned as 60.
C9_Witness ==
    /\ trendOut # Idle /\ ~trendOut.threw
    /\ trendOut.direction = "SIDEWAYS"
    /\ trendIn.adx = 199
    /\ trendOut.strength = 60

\* UPTREND with ADX 25: 62.5, returned as 63.
C9_WitnessHalf ==
    /\ trendOut # Idle /\ ~trendOut.threw
    /\ trendOut.direction = "UPTREND"
    /\ trendIn.adx = 250
    /\ trendOut.strength = 63

----------------------------------------------------------------------------
(* Claims about calculateSupportResistance (levels in thirds)              *)

Lv_Price == 3 * levelsIn.currentPrice

\* Swing highs and lows of a window w, as sets of levels.
Lv_SwingHighs(w) ==
    {3 * w[j] : j \in {i \in 6..(Len(w) - 5) :
        \A k \in 1..5 : w[i - k] <= w[i] /\ w[i + k] <= w[i]}}

Lv_SwingLows(w) ==
    {3 * w[j] : j \in {i \in 6..(Len(w) - 5) :
        \A k \in 1..5 : w[i - k] >= w[i] /\ w[i + k] >= w[i]}}

\* The candidate levels of the call: R1..R3 and the swing highs, S1..S3 and
\* the swing lows.
Lv_Candidates ==
    LET h == levelsIn.historical
        highs == LastN([i \in 1..Len(h) |-> h[i].high], 50)
        lows == LastN([i \in 1..Len(h) |-> h[i].low], 50)
        p == PivotLevels(MaxOf(LastN(highs, 20)), MinOf(LastN(lows, 20)),
                         h[Len(h)].close)
        sh == Lv_SwingHighs(highs)
        sl == Lv_SwingLows(lows)
    IN  [resistance |-> {p.r1, p.r2, p.r3} \cup sh,
         support |-> {p.s1, p.s2, p.s3} \cup sl,
         swingHighs |-> sh, swingLows |-> sl]

\* C10: at most 3 support levels, all strictly below the price and ordered
\* descending; at most 3 resistance levels, all strictly above the price and
\* ordered ascending; no candidate on the same side that is closer to the
\* price than a returned level is left out.
C10_Levels ==
    levelsOut # Idle =>
        LET sup == levelsOut.support
            res == levelsOut.resistance
            cands == Lv_Candidates
        IN  /\ Len(sup) <= 3 /\ Len(res) <= 3
            /\ \A i \in 1..Len(sup) : sup[i] < Lv_Price
            /\ \A i \in 1..Len(res) : res[i] > Lv_Price
            /\ \A i \in 1..(Len(sup) - 1) : sup[i] >= sup[i + 1]
            /\ \A i \in 1..(Len(res) - 1) : res[i] <= res[i + 1]
            /\ \A c \in cands.support :
                  (c < Lv_Price /\ \E i \in 1..Len(sup) : sup[i] < c)
                      => \E k \in 1..Len(sup) : sup[k] = c
            /\ \A c \in cands.resistance :
                  (c > Lv_Price /\ \E i \in 1..Len(res) : res[i] > c)
                      => \E k \in 1..Len(res) : res[k] = c

\* Three distinct levels were returned on each side, a swing high among the
\* resistance levels, and a farther resistance candidate was cut off.
C10_Witness ==
    /\ levelsOut # Idle
    /\ Len(levelsOut.support) = 3 /\ Len(levelsOut.resistance) = 3
    /\ levelsOut.support[1] > levelsOut.support[2]
    /\ levelsOut.support[2] > levelsOut.support[3]
    /\ levelsOut.resistance[1] < levelsOut.resistance[2]
    /\ levelsOut.resistance[2] < levelsOut.resistance[3]
    /\ \E i \in 1..3 : levelsOut.resistance[i] \in Lv_Candidates.swingHighs
    /\ \E c \in Lv_Candidates.resistance : c > levelsOut.resistance[3]

----------------------------------------------------------------------------
(***************************************************************************)
(* Exact arithmetic for the indicator and prediction code.                 *)
(*                                                                         *)
(* A fraction is a pair <<num, den>> with den > 0.  A value that involves  *)
(* Math.sqrt(days) is a pair <<rat, root>> standing for                    *)
(* (rat + root * sqrt(days)) / scale, the scale being carried along.       *)
(***************************************************************************)
Abs(x) == IF x < 0 THEN -x ELSE x

RECURSIVE GCD(_, _)
GCD(a, b) == IF b = 0 THEN a ELSE GCD(b, a % b)

Reduce(num, den) ==
    LET g == GCD(Abs(num), Abs(den))
    IN  IF den < 0 THEN <<(-num) \div g, (-den) \div g>>
        ELSE <<num \div g, den \div g>>

\* a * a * k as three digits in base Limb (a < Limb * Limb, k < 64), so that
\* squares beyond 2^31 can be compared.
Limb == 4096

Carry(x2, x1, x0) ==
    LET y1 == x1 + (x0 \div Limb)
    IN  <<x2 + (y1 \div Limb), y1 % Limb, x0 % Limb>>

SqTimes(a, k) ==
    LET hi == a \div Limb
        lo == a % Limb
    IN  Carry(hi * hi * k, 2 * hi * lo * k, lo * lo * k)

DigitsLess(x, y) ==
    \/ x[1] < y[1]
    \/ x[1] = y[1] /\ x[2] < y[2]
    \/ x[1] = y[1] /\ x[2] = y[2] /\ x[3] < y[3]

\* rat + root * sqrt(days) > 0
SurdPositive(rat, root, days) ==
    LET r2 == SqTimes(Abs(rat), 1)
        s2 == SqTimes(Abs(root), days)
    IN  CASE rat >= 0 /\ root >= 0 -> rat > 0 \/ (root > 0 /\ days > 0)
          [] rat < 0 /\ root <= 0 -> FALSE
          [] rat >= 0 /\ root < 0 -> DigitsLess(s2, r2)
          [] OTHER -> DigitsLess(r2, s2)

\* Math.max(0, x) for x = (rat + root * sqrt(days)) / scale
MaxZeroSurd(rat, root, days) ==
    IF SurdPositive(rat, root, days) THEN <<rat, root>> ELSE <<0, 0>>

----------------------------------------------------------------------------
(***************************************************************************)
(* Price predictions (global-markets.js).  Prices, closes and the ATR are  *)
(* whole price units; the trend multiplier is held in tenths (12, 8, 10).  *)
(***************************************************************************)
RECURSIVE SumOver(_, _, _)
SumOver(data, i, weight) ==
    IF i > Len(data) THEN 0
    ELSE (IF weight = "x" THEN i - 1
          ELSE IF weight = "y" THEN data[i]
          ELSE IF weight = "xy" THEN (i - 1) * data[i]
          ELSE (i - 1) * (i - 1))
         + SumOver(data, i + 1, weight)

\* The fraction (n*sumXY - sumX*sumY) / (n*sumX2 - sumX*sumX), not reduced.
calculateSlope(data) ==
    LET n == Len(data)
        sumX == SumOver(data, 1, "x")
        sumY == SumOver(data, 1, "y")
        sumXY == SumOver(data, 1, "xy")
        sumX2 == SumOver(data, 1, "x2")
    IN  <<n * sumXY - sumX * sumY, n * sumX2 - sumX * sumX>>

MinConfidence == 30
BaseConfidence == 85

calculatePrediction_noMinConfidence(currentPrice, slope, atr, days, trendMultiplier) ==
    LET scale == 20 * slope[2]
        expected == currentPrice * scale + 2 * slope[1] * days * trendMultiplier
        band == 30 * slope[2] * atr
    IN  [scale |-> scale, days |-> days,
         expected |-> Max(0, expected),
         min |-> MaxZeroSurd(expected, -band, days),
         max |-> <<expected, band>>,
         confidence |-> BaseConfidence - days]

calculatePrediction_noFloor(currentPrice, slope, atr, days, trendMultiplier) ==
    LET scale == 20 * slope[2]
        expected == currentPrice * scale + 2 * slope[1] * days * trendMultiplier
        band == 30 * slope[2] * atr
    IN  [scale |-> scale, days |-> days,
         expected |-> expected,
         min |-> MaxZeroSurd(expected, -band, days),
         max |-> <<expected, band>>,
         confidence |-> Max(MinConfidence, BaseConfidence - days)]

\* Every amount of the result is in 1/scale price units, scale = 20 * the
\* slope's denominator: expectedChange = slope * days * trendMultiplier / 10
\* and volatilityFactor * 1.5 = 1.5 * atr * sqrt(days).
calculatePrediction(currentPrice, slope, atr, days, trendMultiplier) ==
    LET scale == 20 * slope[2]
        expected == currentPrice * scale + 2 * slope[1] * days * trendMultiplier
        band == 30 * slope[2] * atr
    IN  [scale |-> scale, days |-> days,
         expected |-> Max(0, expected),
         min |-> MaxZeroSurd(expected, -band, days),
         max |-> <<expected, band>>,
         confidence |-> Max(MinConfidence, BaseConfidence - days)]

SlopeWindow == 30

TrendMultiplier(trend) ==
    IF trend.direction = "UPTREND" THEN 12
    ELSE IF trend.direction = "DOWNTREND" THEN 8 ELSE 10

generatePredictions(closes, trend, atr, currentPrice) ==
    LET recentCloses == LastN(closes, SlopeWindow)
        slope == calculateSlope(recentCloses)
        trendMultiplier == TrendMultiplier(trend)
    IN  [day7 |-> calculatePrediction(currentPrice, slope, atr, 7, trendMultiplier),
         day14 |-> calculatePrediction(currentPrice, slope, atr, 14, trendMultiplier),
         day30 |-> calculatePrediction(currentPrice, slope, atr, 30, trendMultiplier)]

\* Inputs.  Closes are three runs of equal values, each run a single bar or
\* RunOfCloses bars long, so that series shorter and longer than the 30-bar
\* regression window occur.
MaxClose == 2
MaxAtr == 2
MaxDays == 60
RunOfCloses == 16

CloseSeries ==
    {Repeat(c1, r1) \o Repeat(c2, r2) \o Repeat(c3, r3) :
        <<c1, c2, c3>> \in (1..MaxClose) \X (1..MaxClose) \X (1..MaxClose),
        <<r1, r2, r3>> \in {1, RunOfCloses} \X {1, RunOfCloses} \X {1, RunOfCloses}}

Directions == {"UPTREND", "DOWNTREND", "SIDEWAYS"}

GenerateArgs ==
    [call : {"generatePredictions"}, closes : CloseSeries,
     trend : [direction : Directions], atr : 0..MaxAtr,
     currentPrice : 1..(MaxClose + 2)]

Slopes == {<<-1, 2>>, <<0, 1>>, <<1, 2>>}

PredictionArgs ==
    [call : {"calculatePrediction"}, currentPrice : {1, MaxClose + 1, 100},
     slope : Slopes, atr : {0, MaxAtr}, trendMultiplier : {8, 10, 12},
     days : {d \in (0..MaxDays) \X (0..MaxDays) : d[1] < d[2]}]

InitPredictions ==
    /\ predIn \in GenerateArgs \cup PredictionArgs
    /\ predOut = Idle
    /\ ScoreFnIdle /\ RatingIdle /\ ScoreIdle /\ TrendIdle /\ LevelsIdle
    /\ IndIdle /\ AppIdle

CallGeneratePredictions ==
    /\ predOut = Idle
    /\ predIn.call = "generatePredictions"
    /\ predOut' = generatePredictions(predIn.closes, predIn.trend, predIn.atr,
                                      predIn.currentPrice)
    /\ UNCHANGED <<predIn, scoreFnVars, ratingVars, scoreVars, trendVars,
                   levelsVars, indVars, appVars>>

\* Two calls that differ in the horizon only.
CallCalculatePrediction ==
    /\ predOut = Idle
    /\ predIn.call = "calculatePrediction"
    /\ predOut' = [d \in {1, 2} |->
                     calculatePrediction(predIn.currentPrice, predIn.slope,
                                         predIn.atr, predIn.days[d],
                                         predIn.trendMultiplier)]
    /\ UNCHANGED <<predIn, scoreFnVars, ratingVars, scoreVars, trendVars,
                   levelsVars, indVars, appVars>>

NextPredictions == CallGeneratePredictions \/ CallCalculatePrediction

SpecPredictions == InitPredictions /\ [][NextPredictions]_vars

----------------------------------------------------------------------------
(***************************************************************************)
(* Claims C11 and C12: price predictions.                                  *)
(***************************************************************************)
Pred_Generated == predOut # Idle /\ predIn.call = "generatePredictions"

\* The least-squares slope written with centred sums, as a reduced fraction:
\* sum (x - xbar)(y - ybar) / sum (x - xbar)^2 over the last 30 closes.
Pred_Slope ==
    LET w == LastN(predIn.closes, 30)
        n == Len(w)
        total == SumOver(w, 1, "y")
        Sxy[i \in 0..n] ==
            IF i = 0 THEN 0
            ELSE Sxy[i - 1] + (2 * (i - 1) - (n - 1)) * (n * w[i] - total)
        Sxx[i \in 0..n] ==
            IF i = 0 THEN 0
            ELSE Sxx[i - 1] + (2 * (i - 1) - (n - 1)) * (2 * (i - 1) - (n - 1))
    IN  Reduce(2 * Sxy[n], n * Sxx[n])

Pred_Tenths ==
    CASE predIn.trend.direction = "UPTREND" -> 12
      [] predIn.trend.direction = "DOWNTREND" -> 8
      [] predIn.trend.direction = "SIDEWAYS" -> 10

\* price + slope * d * m as a reduced fraction
Pred_Raw(d) ==
    LET s == Pred_Slope
    IN  Reduce(predIn.currentPrice * s[2] * 10 + s[1] * d * Pred_Tenths,
               s[2] * 10)

\* A value (rat + root * sqrt(d)) / scale in lowest terms
Pred_Norm(rat, root, scale) ==
    LET g == GCD(GCD(Abs(rat), Abs(root)), scale)
    IN  <<rat \div g, root \div g, scale \div g>>

Pred_Holds(p, d) ==
    LET e == Pred_Raw(d)
        lo == <<2 * e[1], -3 * predIn.atr * e[2]>>
    IN  /\ p.days = d
        /\ Reduce(p.expected, p.scale) = (IF e[1] < 0 THEN <<0, 1>> ELSE e)
        /\ Pred_Norm(p.min[1], p.min[2], p.scale)
             = (IF SurdPositive(lo[1], lo[2], d)
                THEN Pred_Norm(lo[1], lo[2], 2 * e[2])
                ELSE <<0, 0, 1>>)
        /\ p.confidence = (IF 85 - d > 30 THEN 85 - d ELSE 30)

\* C11: for each horizon d in {7, 14, 30} generatePredictions yields
\* expected = max(0, price + slope*d*m), slope being the least-squares slope
\* of the last 30 closes and m = 1.2 / 0.8 / 1.0 for UPTREND / DOWNTREND /
\* SIDEWAYS, min = max(0, price + slope*d*m - 1.5*sqrt(d)*ATR) and
\* confidence = max(30, 85 - d).
\* E.g. slope 0.5, price 100, uptrend, d = 7: expected 104.2, confidence 78.
C11_Predictions ==
    /\ Pred_Generated =>
        /\ DOMAIN predOut = {"day7", "day14", "day30"}
        /\ Pred_Holds(predOut.day7, 7)
        /\ Pred_Holds(predOut.day14, 14)
        /\ Pred_Holds(predOut.day30, 30)
    /\ (/\ predOut # Idle
        /\ predIn.call = "calculatePrediction"
        /\ predIn.currentPrice = 100
        /\ predIn.slope = <<1, 2>>
        /\ predIn.trendMultiplier = 12
        /\ predIn.days[1] = 7) =>
            /\ 10 * predOut[1].expected = 1042 * predOut[1].scale
            /\ predOut[1].confidence = 78

\* More than 30 closes whose older part would change the slope, a rising
\* window, an uptrend, and a 30-day minimum floored at 0.
C11_Witness ==
    /\ Pred_Generated
    /\ Len(predIn.closes) > 30
    /\ Pred_Slope[1] > 0
    /\ Pred_Slope # Reduce(calculateSlope(predIn.closes)[1],
                           calculateSlope(predIn.closes)[2])
    /\ predIn.trend.direction = "UPTREND"
    /\ predOut.day7.expected > predIn.currentPrice * predOut.day7.scale
    /\ predOut.day7.min # <<0, 0>>
    /\ predOut.day30.min = <<0, 0>>
    /\ predOut.day7.confidence = 78

\* A falling window that floors the expected price itself at 0.
C11_WitnessFloor ==
    /\ Pred_Generated
    /\ Pred_Raw(30)[1] < 0
    /\ predOut.day30.expected = 0
    /\ predOut.day7.expected > 0

Pred_Paired == predOut # Idle /\ predIn.call = "calculatePrediction"

\* C12: confidence never rises with the horizon (d1 < d2 implies
\* confidence(d1) >= confidence(d2)), the three produced horizons have
\* confidence(7) > confidence(14) > confidence(30), and confidence is never
\* below 30.
C12_Confidence ==
    /\ Pred_Paired =>
        /\ predIn.days[1] < predIn.days[2]
        /\ predOut[1].confidence >= predOut[2].confidence
        /\ predOut[1].confidence >= 30
        /\ predOut[2].confidence >= 30
    /\ Pred_Generated =>
        /\ predOut.day7.confidence > predOut.day14.confidence
        /\ predOut.day14.confidence > predOut.day30.confidence
        /\ predOut.day30.confidence >= 30

\* Two horizons beyond 55 days, where both confidences sit on the floor.
C12_Witness ==
    /\ Pred_Paired
    /\ predIn.days[1] > 55
    /\ predOut[1].confidence = 30
    /\ predOut[2].confidence = 30

C12_WitnessStrict ==
    /\ Pred_Paired
    /\ predIn.days[2] <= 55
    /\ predOut[1].confidence > predOut[2].confidence

----------------------------------------------------------------------------
(***************************************************************************)
(* RSI, in global-markets.js (the analyzer) and ai-insights.js (the        *)
(* server).  An RSI is returned as the reduced fraction rsi / 100, so      *)
(* <<1, 1>> is 100, <<1, 2>> is 50 and <<100, 101>> is 99.0099...; NaN is  *)
(* the one-element tuple <<"NaN">>.                                        *)
(***************************************************************************)
NaN == <<"NaN">>

\* changes[i] = closes[i] - closes[i - 1]
Changes(closes) ==
    [i \in 1..(Len(closes) - 1) |-> closes[i + 1] - closes[i]]

Reduce3(a, b, c) ==
    LET g == GCD(GCD(Abs(a), Abs(b)), Abs(c))
    IN  <<a \div g, b \div g, c \div g>>

\* The sums of the gains and of the losses of changes[from .. from + n - 1]
GainsLosses(changes, from, n) ==
    LET sums[k \in 0..n] ==
            IF k = 0 THEN <<0, 0>>
            ELSE LET change == changes[from + k - 1]
                 IN  IF change > 0
                     THEN <<sums[k - 1][1] + change, sums[k - 1][2]>>
                     ELSE <<sums[k - 1][1], sums[k - 1][2] + Abs(change)>>
    IN  sums[n]

\* The analyzer's running averages after the first i changes, as <<g, l, s>>
\* with avgGain = g / s and avgLoss = l / s (Wilder smoothing from the
\* plain averages of the first period changes).
Smoothed(changes, period, i) ==
    LET avg[k \in period..i] ==
            IF k = period
            THEN LET first == GainsLosses(changes, 1, period)
                 IN  Reduce3(first[1], first[2], period)
            ELSE LET prev == avg[k - 1]
                     change == changes[k]
                 IN  IF prev[3] <= 0 THEN prev
                     ELSE IF change > 0
                     THEN Reduce3(prev[1] * (period - 1) + change * prev[3],
                                  prev[2] * (period - 1), prev[3] * period)
                     ELSE Reduce3(prev[1] * (period - 1),
                                  prev[2] * (period - 1) + Abs(change) * prev[3],
                                  prev[3] * period)
    IN  avg[i]

Analyzer_calculateRSI_overRs(closes, period) ==
    LET changes == Changes(closes)
    IN  IF Len(changes) < period THEN NaN
        ELSE LET avg == Smoothed(changes, period, Len(changes))
             IN  IF avg[2] = 0 THEN <<99, 100>>
                 ELSE IF avg[1] = 0 THEN <<"-Infinity">>
                 ELSE Reduce(avg[1] - avg[2], avg[1])

\* global-markets.js calculateRSI.  With fewer than period changes the first
\* loop reads changes[i] = undefined and the averages become NaN.  Otherwise
\* rs = avgLoss === 0 ? 100 : avgGain / avgLoss and the result is
\* 100 - 100 / (1 + rs), that is 100 * avgGain / (avgGain + avgLoss).
Analyzer_calculateRSI(closes, period) ==
    LET changes == Changes(closes)
    IN  IF Len(changes) < period THEN NaN
        ELSE LET avg == Smoothed(changes, period, Len(changes))
             IN  IF avg[2] = 0 THEN <<100, 101>>
                 ELSE Reduce(avg[1], avg[1] + avg[2])

\* ai-insights.js calculateRSI: plain averages of the last period changes,
\* 50 when there are fewer than period + 1 prices, 100 when avgLoss is 0.
Server_calculateRSI(prices, period) ==
    IF Len(prices) < period + 1 THEN <<1, 2>>
    ELSE LET sums == GainsLosses(Changes(prices), Len(prices) - period, period)
         IN  IF sums[2] = 0 THEN <<1, 1>>
             ELSE Reduce(sums[1], sums[1] + sums[2])

\* Inputs: three runs of equal closes, each 1, 2 or 7 bars long, and a
\* series of 40 closes of 10.
RsiRuns == {1, 2, 7}
RsiPeriods == {2, 3, 14}

RsiSeries ==
    {Repeat(c1, r1) \o Repeat(c2, r2) \o Repeat(c3, r3) :
        <<c1, c2, c3>> \in (1..MaxClose) \X (1..MaxClose) \X (1..MaxClose),
        <<r1, r2, r3>> \in RsiRuns \X RsiRuns \X RsiRuns}
    \cup {Repeat(10, 40)}

InitRsi ==
    /\ indIn \in [call : {"analyzer.calculateRSI", "server.calculateRSI"},
                  closes : RsiSeries, period : RsiPeriods]
    /\ indOut = Idle
    /\ ScoreFnIdle /\ RatingIdle /\ ScoreIdle /\ TrendIdle /\ LevelsIdle
    /\ PredIdle /\ AppIdle

CallAnalyzerRSI ==
    /\ indOut = Idle
    /\ indIn.call = "analyzer.calculateRSI"
    /\ indOut' = <<Analyzer_calculateRSI(indIn.closes, indIn.period)>>
    /\ UNCHANGED <<indIn, scoreFnVars, ratingVars, scoreVars, trendVars,
                   levelsVars, predVars, appVars>>

CallServerRSI ==
    /\ indOut = Idle
    /\ indIn.call = "server.calculateRSI"
    /\ indOut' = <<Server_calculateRSI(indIn.closes, indIn.period)>>
    /\ UNCHANGED <<indIn, scoreFnVars, ratingVars, scoreVars, trendVars,
                   levelsVars, predVars, appVars>>

NextRsi == CallAnalyzerRSI \/ CallServerRSI

SpecRsi == InitRsi /\ [][NextRsi]_vars

----------------------------------------------------------------------------
(***************************************************************************)
(* Claims C13 and C14: RSI.                                                *)
(***************************************************************************)
Rsi_Called == indOut # Idle /\ indIn.call \in {"analyzer.calculateRSI", "server.calculateRSI"}

Rsi_Enough == Len(indIn.closes) >= indIn.period + 1

\* The deltas the implementation evaluates: all of them in the analyzer, the
\* last period ones in the server.
Rsi_Evaluated ==
    IF indIn.call = "analyzer.calculateRSI" THEN 2..Len(indIn.closes)
    ELSE (Len(indIn.closes) - indIn.period + 1)..Len(indIn.closes)

\* The average loss is 0: no evaluated delta is a fall.
Rsi_NoLoss ==
    \A i \in Rsi_Evaluated : indIn.closes[i] >= indIn.closes[i - 1]

\* C13: whenever the average loss over the evaluated deltas is exactly 0,
\* both RSI implementations report exactly 100.
C13_Original == (Rsi_Called /\ Rsi_Enough /\ Rsi_NoLoss) => indOut[1] = <<1, 1>>

\* C14: for every close series with at least period + 1 bars, both RSI
\* implementations return a number in [0, 100].
C14_RsiInRange ==
    (Rsi_Called /\ Rsi_Enough) =>
        /\ Len(indOut[1]) = 2
        /\ indOut[1][2] > 0
        /\ 0 <= indOut[1][1]
        /\ indOut[1][1] <= indOut[1][2]

\* An analyzer result strictly inside the range after Wilder updates, on a
\* series with both rises and falls.
C14_Witness ==
    /\ Rsi_Called /\ Rsi_Enough
    /\ indIn.call = "analyzer.calculateRSI"
    /\ Len(indIn.closes) > indIn.period + 1
    /\ ~Rsi_NoLoss
    /\ indOut[1][1] > 0
    /\ indOut[1][1] < indOut[1][2]

\* The server at the ends of the range: RSI 0 on a series that only falls.
C14_WitnessServer ==
    /\ Rsi_Called /\ Rsi_Enough
    /\ indIn.call = "server.calculateRSI"
    /\ indOut[1] = <<0, 1>>

----------------------------------------------------------------------------
(***************************************************************************)
(* calculateADX (global-markets.js).  The result is a fraction             *)
(* <<num, den>>; a division by zero gives NaN (0 / 0) or Infinity.         *)
(***************************************************************************)
Infinity == <<"Infinity">>

Max3(a, b, c) == Max(a, Max(b, c))

\* trueRanges, plusDM and minusDM: entry i is for bars i and i + 1
TrueRanges(highs, lows, closes) ==
    [i \in 1..(Len(closes) - 1) |->
        Max3(highs[i + 1] - lows[i + 1],
             Abs(highs[i + 1] - closes[i]),
             Abs(lows[i + 1] - closes[i]))]

PlusDM(highs, lows, closes) ==
    [i \in 1..(Len(closes) - 1) |->
        LET highDiff == highs[i + 1] - highs[i]
            lowDiff == lows[i] - lows[i + 1]
        IN  IF highDiff > lowDiff /\ highDiff > 0 THEN highDiff ELSE 0]

MinusDM(highs, lows, closes) ==
    [i \in 1..(Len(closes) - 1) |->
        LET highDiff == highs[i + 1] - highs[i]
            lowDiff == lows[i] - lows[i + 1]
        IN  IF lowDiff > highDiff /\ lowDiff > 0 THEN lowDiff ELSE 0]

\* seq.reduce((a, b) => a + b, 0)
RECURSIVE SumSeq(_)
SumSeq(seq) == IF seq = <<>> THEN 0 ELSE Head(seq) + SumSeq(Tail(seq))

\* (dm / tr) * 100 for dm >= 0 and tr >= 0
DirectionalIndex(dm, tr) ==
    IF tr = 0 THEN (IF dm = 0 THEN NaN ELSE Infinity)
    ELSE Reduce(100 * dm, tr)

\* Math.abs(plusDI - minusDI) / (plusDI + minusDI) * 100
DirectionalMovement(plusDI, minusDI) ==
    IF plusDI \in {NaN, Infinity} \/ minusDI \in {NaN, Infinity} THEN NaN
    ELSE LET diff == Abs(plusDI[1] * minusDI[2] - minusDI[1] * plusDI[2])
             sum == plusDI[1] * minusDI[2] + minusDI[1] * plusDI[2]
         IN  IF sum = 0 THEN NaN ELSE Reduce(100 * diff, sum)

DefaultADX == 25

calculateADX_noDefault(highs, lows, closes, period) ==
    LET smoothedTR == SumSeq(LastN(TrueRanges(highs, lows, closes), period))
        smoothedPlusDM == SumSeq(LastN(PlusDM(highs, lows, closes), period))
        smoothedMinusDM == SumSeq(LastN(MinusDM(highs, lows, closes), period))
        plusDI == DirectionalIndex(smoothedPlusDM, smoothedTR)
        minusDI == DirectionalIndex(smoothedMinusDM, smoothedTR)
    IN  DirectionalMovement(plusDI, minusDI)

\* return dx || 25: NaN and 0 are falsy
calculateADX(highs, lows, closes, period) ==
    LET smoothedTR == SumSeq(LastN(TrueRanges(highs, lows, closes), period))
        smoothedPlusDM == SumSeq(LastN(PlusDM(highs, lows, closes), period))
        smoothedMinusDM == SumSeq(LastN(MinusDM(highs, lows, closes), period))
        plusDI == DirectionalIndex(smoothedPlusDM, smoothedTR)
        minusDI == DirectionalIndex(smoothedMinusDM, smoothedTR)
        dx == DirectionalMovement(plusDI, minusDI)
    IN  IF dx = NaN \/ dx[1] = 0 THEN <<DefaultADX, 1>> ELSE dx

AdxPeriods == {2, 5, 14}

InitAdx ==
    /\ indIn \in [call : {"calculateADX"}, historical : Histories,
                  period : AdxPeriods]
    /\ indOut = Idle
    /\ ScoreFnIdle /\ RatingIdle /\ ScoreIdle /\ TrendIdle /\ LevelsIdle
    /\ PredIdle /\ AppIdle

CallCalculateADX ==
    /\ indOut = Idle
    /\ indIn.call = "calculateADX"
    /\ LET h == indIn.historical
           highs == [i \in 1..Len(h) |-> h[i].high]
           lows == [i \in 1..Len(h) |-> h[i].low]
           closes == [i \in 1..Len(h) |-> h[i].close]
       IN  indOut' = <<calculateADX(highs, lows, closes, indIn.period)>>
    /\ UNCHANGED <<indIn, scoreFnVars, ratingVars, scoreVars, trendVars,
                   levelsVars, predVars, appVars>>

NextAdx == CallCalculateADX

SpecAdx == InitAdx /\ [][NextAdx]_vars

----------------------------------------------------------------------------
(***************************************************************************)
(* Claim C15: the ADX default.                                             *)
(***************************************************************************)
Adx_Called == indOut # Idle /\ indIn.call = "calculateADX"

\* The bars whose true range is among the trailing period ones
Adx_Trailing ==
    LET n == Len(indIn.historical)
    IN  {i \in 2..n : i > n - indIn.period}

\* Every trailing true range is 0: the bar is a point at the previous close.
Adx_ZeroRange ==
    \A i \in Adx_Trailing :
        /\ indIn.historical[i].high = indIn.historical[i].low
        /\ indIn.historical[i].high = indIn.historical[i - 1].close

\* C15: calculateADX returns exactly 25 whenever the sum of the trailing
\* period true ranges is 0, instead of NaN or an exception.
C15_AdxDefault == (Adx_Called /\ Adx_ZeroRange) => indOut[1] = <<25, 1>>

\* A series that moved before its flat tail, with a full trailing window.
C15_Witness ==
    /\ Adx_Called /\ Adx_ZeroRange
    /\ Cardinality(Adx_Trailing) = indIn.period
    /\ \E i \in 2..Len(indIn.historical) :
           indIn.historical[i].high # indIn.historical[i - 1].high
    /\ indOut[1] = <<25, 1>>

\* Elsewhere the function returns other values than the default.
C15_WitnessOther ==
    /\ Adx_Called /\ ~Adx_ZeroRange
    /\ indOut[1] = <<100, 1>>

----------------------------------------------------------------------------
(***************************************************************************)
(* Indicator arrays.  The server's arrays (ai-insights.js) hold amounts    *)
(* rounded to 2 decimals: an entry is Num(c) with c in cents, the input   *)
(* prices being whole units.  The analyzer's calculateEMA (global-markets.js) does not  *)
(* round: its entries are reduced fractions <<num, den>>.  A null entry is *)
(* Null.  Index i of the source is index i + 1 here.                       *)
(***************************************************************************)
\* prices.slice(from, to).reduce((a, b) => a + b, 0), indices of the source
SumSlice(prices, from, to) ==
    SumSeq([k \in 1..(Min(to, Len(prices)) - from) |-> prices[from + k]])

calculateSMAArray_lateStart(prices, period) ==
    [j \in 1..Len(prices) |->
        IF j - 1 < period THEN Null
        ELSE Num(MathRound(100 * SumSlice(prices, j - period, j), period))]

calculateSMAArray(prices, period) ==
    [j \in 1..Len(prices) |->
        IF j - 1 < period - 1 THEN Null
        ELSE Num(MathRound(100 * SumSlice(prices, j - period, j), period))]

\* ema = prices[i] * k + result[i - 1] * (1 - k) with k = 2 / (period + 1),
\* rounded to cents
calculateEMAArray(prices, period) ==
    LET result[j \in 0..Len(prices)] ==
            IF j = 0 \/ j - 1 < period - 1 THEN Null
            ELSE IF j - 1 = period - 1
                 THEN Num(MathRound(100 * SumSlice(prices, 0, period), period))
                 ELSE Num(MathRound(200 * prices[j]
                                      + (period - 1) * ToNumber(result[j - 1]),
                                    period + 1))
    IN  [j \in 1..Len(prices) |-> result[j]]

\* floor(sqrt(n)) for 0 <= n < 46341 * 46341
RECURSIVE SqrtBetween(_, _, _)
SqrtBetween(n, lo, hi) ==
    IF hi - lo <= 1 THEN lo
    ELSE LET mid == (lo + hi) \div 2
         IN  IF mid * mid <= n THEN SqrtBetween(n, mid, hi)
             ELSE SqrtBetween(n, lo, mid)

FloorSqrt(n) == SqrtBetween(n, 0, 46341)

CeilSqrt(n) == IF FloorSqrt(n) * FloorSqrt(n) = n THEN FloorSqrt(n) ELSE FloorSqrt(n) + 1

\* With s the sum of the window and q = period * (sum of squares) - s * s,
\* sma = s / period and std = sqrt(q) / period, so that
\* Math.round((sma + stdDev * std) * 100) is the floor of
\* (200 * s + sqrt(40000 * stdDev^2 * q) + period) / (2 * period).
calculateBollingerBands(prices, period, stdDev) ==
    LET Band(j) ==
            LET slice == [k \in 1..period |-> prices[j - period + k]]
                s == SumSeq(slice)
                q == period * SumSeq([k \in 1..period |-> slice[k] * slice[k]]) - s * s
                spread == 40000 * stdDev * stdDev * q
            IN  [middle |-> MathRound(100 * s, period),
                 upper |-> (200 * s + FloorSqrt(spread) + period) \div (2 * period),
                 lower |-> (200 * s - CeilSqrt(spread) + period) \div (2 * period)]
    IN  [upper |-> [j \in 1..Len(prices) |->
                        IF j - 1 < period - 1 THEN Null ELSE Num(Band(j).upper)],
         middle |-> [j \in 1..Len(prices) |->
                        IF j - 1 < period - 1 THEN Null ELSE Num(Band(j).middle)],
         lower |-> [j \in 1..Len(prices) |->
                        IF j - 1 < period - 1 THEN Null ELSE Num(Band(j).lower)]]

\* Fractions <<num, den>> in lowest terms, den > 0
Lcm(a, b) == (a \div GCD(a, b)) * b

FAdd(x, y) ==
    LET l == Lcm(x[2], y[2])
    IN  Reduce(x[1] * (l \div x[2]) + y[1] * (l \div y[2]), l)

FSub(x, y) == FAdd(x, <<-y[1], y[2]>>)

\* x * num / den
FTimes(x, num, den) ==
    LET a == Reduce(x[1], den)
        b == Reduce(num, x[2])
    IN  Reduce(a[1] * b[1], a[2] * b[2])

\* seq.reduce((a, b) => a + b, 0); each partial sum is evaluated before the
\* next addition.
FSum(seq) ==
    LET sum[k \in 0..Len(seq)] ==
            IF k = 0 THEN <<0, 1>>
            ELSE LET partial == sum[k - 1]
                 IN  IF partial[2] > 0 THEN FAdd(partial, seq[k]) ELSE NaN
    IN  sum[Len(seq)]

AsFractions(values) == [j \in 1..Len(values) |-> <<values[j], 1>>]

\* value * k + ema * (1 - k) with k = 2 / (period + 1)
EmaStep(value, ema, period) ==
    FAdd(FTimes(value, 2, period + 1), FTimes(ema, period - 1, period + 1))

\* The analyzer's calculateEMA on an array of fractions: the seed is the sum
\* of data.slice(0, period) over period; entries i < period are null, later
\* ones continue from the seed.
calculateEMA(data, period) ==
    LET seed == FTimes(FSum(FirstN(data, period)), 1, period)
        ema[j \in 0..Len(data)] ==
            IF j - 1 < period THEN seed
            ELSE LET previous == ema[j - 1]
                 IN  IF previous[2] > 0 THEN EmaStep(data[j], previous, period)
                     ELSE NaN
    IN  [j \in 1..Len(data) |-> IF j - 1 < period THEN Null ELSE ema[j]]

MaxArrayLen == 5
MaxPeriod == 6

RECURSIVE SeqsUpTo(_, _)
SeqsUpTo(S, n) ==
    IF n = 0 THEN {<<>>}
    ELSE LET shorter == SeqsUpTo(S, n - 1)
         IN  shorter \cup {Append(s, x) : s \in {t \in shorter : Len(t) = n - 1}, x \in S}

ArrayCalls ==
    {"calculateSMAArray", "calculateEMAArray", "calculateBollingerBands",
     "calculateEMA"}

InitArrays ==
    /\ indIn \in [call : ArrayCalls, prices : SeqsUpTo(1..MaxClose, MaxArrayLen),
                  period : 1..MaxPeriod]
    /\ indOut = Idle
    /\ ScoreFnIdle /\ RatingIdle /\ ScoreIdle /\ TrendIdle /\ LevelsIdle
    /\ PredIdle /\ AppIdle

CallCalculateSMAArray ==
    /\ indOut = Idle
    /\ indIn.call = "calculateSMAArray"
    /\ indOut' = [array |-> calculateSMAArray(indIn.prices, indIn.period)]
    /\ UNCHANGED <<indIn, scoreFnVars, ratingVars, scoreVars, trendVars,
                   levelsVars, predVars, appVars>>

CallCalculateEMAArray ==
    /\ indOut = Idle
    /\ indIn.call = "calculateEMAArray"
    /\ indOut' = [array |-> calculateEMAArray(indIn.prices, indIn.period)]
    /\ UNCHANGED <<indIn, scoreFnVars, ratingVars, scoreVars, trendVars,
                   levelsVars, predVars, appVars>>

CallCalculateBollingerBands ==
    /\ indOut = Idle
    /\ indIn.call = "calculateBollingerBands"
    /\ indOut' = calculateBollingerBands(indIn.prices, indIn.period, 2)
    /\ UNCHANGED <<indIn, scoreFnVars, ratingVars, scoreVars, trendVars,
                   levelsVars, predVars, appVars>>

CallCalculateEMA ==
    /\ indOut = Idle
    /\ indIn.call = "calculateEMA"
    /\ indOut' = [array |-> calculateEMA(AsFractions(indIn.prices),
                                          indIn.period)]
    /\ UNCHANGED <<indIn, scoreFnVars, ratingVars, scoreVars, trendVars,
                   levelsVars, predVars, appVars>>

NextArrays ==
    \/ CallCalculateSMAArray
    \/ CallCalculateEMAArray
    \/ CallCalculateBollingerBands
    \/ CallCalculateEMA

SpecArrays == InitArrays /\ [][NextArrays]_vars

----------------------------------------------------------------------------
(***************************************************************************)
(* Claims C16, C17 and C18: indicator arrays.  Index i of a claim is       *)
(* index i + 1 of a sequence.                                              *)
(***************************************************************************)
Arr_Called(call) == indOut # Idle /\ indIn.call = call

Arr_N == Len(indIn.prices)
Arr_P == indIn.period

\* Length n, null before index P - 1, a number (of cents) from there on
Arr_Shape(a) ==
    /\ DOMAIN a = 1..Arr_N
    /\ \A j \in 1..Arr_N : IF j - 1 < Arr_P - 1 THEN a[j] = Null
          ELSE Len(a[j]) = 1 /\ a[j][1] \in Int

Arr_LeadingNulls(a) ==
    Cardinality({j \in 1..Len(a) : \A k \in 1..j : a[k] = Null})

\* C16: for any period P >= 1 and any input of length n, calculateSMAArray,
\* calculateEMAArray and the upper, middle and lower arrays of
\* calculateBollingerBands have length n and exactly min(n, P - 1) leading
\* null entries, every entry from index P - 1 on being a number.
C16_ArrayShape ==
    /\ (Arr_Called("calculateSMAArray") \/ Arr_Called("calculateEMAArray")) =>
        /\ Arr_Shape(indOut.array)
        /\ Arr_LeadingNulls(indOut.array) = Min(Arr_N, Arr_P - 1)
    /\ Arr_Called("calculateBollingerBands") =>
        /\ DOMAIN indOut = {"upper", "middle", "lower"}
        /\ \A band \in DOMAIN indOut :
              /\ Arr_Shape(indOut[band])
              /\ Arr_LeadingNulls(indOut[band]) = Min(Arr_N, Arr_P - 1)

\* A moving average with both nulls and numbers.
C16_Witness ==
    /\ Arr_Called("calculateSMAArray")
    /\ Arr_P > 1 /\ Arr_N > Arr_P
    /\ indOut.array[Arr_P - 1] = Null
    /\ indOut.array[Arr_P] # Null
    /\ indOut.array[Arr_N] # indOut.array[Arr_P]

C16_WitnessBands ==
    /\ Arr_Called("calculateBollingerBands")
    /\ Arr_P > 1 /\ Arr_N > Arr_P
    /\ indOut.upper[Arr_P - 1] = Null
    /\ indOut.upper[Arr_N][1] > indOut.middle[Arr_N][1]
    /\ indOut.lower[Arr_N][1] < indOut.middle[Arr_N][1]

C16_WitnessAllNull ==
    /\ Arr_Called("calculateEMAArray")
    /\ Arr_N > 0 /\ Arr_N < Arr_P
    /\ \A j \in 1..Arr_N : indOut.array[j] = Null

\* The SMA of the first P values as a reduced fraction
Arr_Seed == Reduce(SumSeq(SubSeq(indIn.prices, 1, Arr_P)), Arr_P)

\* C17: the analyzer's calculateEMA(data, period) returns an array of the
\* input's length whose entries before index period - 1 are null and whose
\* entry at index period - 1 is the SMA of the first period values.
C17_Original ==
    Arr_Called("calculateEMA") =>
        /\ DOMAIN indOut.array = 1..Arr_N
        /\ \A j \in 1..Arr_N : j - 1 < Arr_P - 1 => indOut.array[j] = Null
        /\ Arr_N >= Arr_P => indOut.array[Arr_P] = Arr_Seed

\* value * k + previous * (1 - k) with k = 2 / (P + 1), previous = <<n, d>>
Arr_Step(value, previous) ==
    Reduce(2 * value * previous[2] + (Arr_P - 1) * previous[1],
           (Arr_P + 1) * previous[2])

\* C18: for every index i >= period both EMA implementations satisfy
\* ema[i] = value[i] * k + ema[i - 1] * (1 - k) with k = 2 / (period + 1),
\* where ema[period - 1] is the SMA of the first period values.  (The
\* server's entries are cents: c stands for c / 100.)
C18_Original ==
    /\ Arr_Called("calculateEMAArray") =>
        \A j \in 1..Arr_N : j - 1 >= Arr_P =>
            Reduce(indOut.array[j][1], 100)
              = Arr_Step(indIn.prices[j],
                         IF j - 1 = Arr_P THEN Arr_Seed
                         ELSE Reduce(indOut.array[j - 1][1], 100))
    /\ Arr_Called("calculateEMA") =>
        \A j \in 1..Arr_N : j - 1 >= Arr_P =>
            indOut.array[j]
              = Arr_Step(indIn.prices[j],
                         IF j - 1 = Arr_P THEN Arr_Seed ELSE indOut.array[j - 1])

----------------------------------------------------------------------------
(***************************************************************************)
(* MACD and the server's scalar indicators.  Results are fractions; the    *)
(* analyzer's fields may also be Null, Undefined (an index past the end of *)
(* an array) or NaN.                                                       *)
(***************************************************************************)
Undefined == <<"undefined">>

FastPeriod == 12
SlowPeriod == 26
SignalPeriod == 9

\* array[array.length - 1]
LastOf(array) == IF array = <<>> THEN Undefined ELSE array[Len(array)]

\* a - b in JavaScript: null counts as 0, undefined gives NaN
JsMinus(a, b) ==
    IF a = Undefined \/ b = Undefined \/ a = NaN \/ b = NaN THEN NaN
    ELSE FSub(IF a = Null THEN <<0, 1>> ELSE a, IF b = Null THEN <<0, 1>> ELSE b)

Analyzer_calculateMACD(closes) ==
    LET ema12 == calculateEMA(AsFractions(closes), FastPeriod)
        ema26 == calculateEMA(AsFractions(closes), SlowPeriod)
        macdLine == [j \in 1..Len(closes) |->
                        IF ema12[j] # Null /\ ema26[j] # Null
                        THEN FSub(ema12[j], ema26[j]) ELSE Null]
        signalLine == calculateEMA(SelectSeq(macdLine, LAMBDA v : v # Null),
                                   SignalPeriod)
        currentMacd == LastOf(macdLine)
        currentSignal == LastOf(signalLine)
    IN  [macd |-> currentMacd, signal |-> currentSignal,
         histogram |-> JsMinus(currentMacd, currentSignal)]

\* calcEMA of the server's calculateMACD: the last value only
calcEMA(data, period) ==
    LET ema[j \in period..Len(data)] ==
            IF j = period
            THEN FTimes(FSum(FirstN(AsFractions(data), period)), 1, period)
            ELSE LET previous == ema[j - 1]
                 IN  IF previous[2] > 0
                     THEN EmaStep(<<data[j], 1>>, previous, period)
                     ELSE NaN
    IN  ema[Len(data)]

Server_calculateMACD(prices) ==
    IF Len(prices) < SlowPeriod
    THEN [macd |-> <<0, 1>>, signal |-> <<0, 1>>, histogram |-> <<0, 1>>]
    ELSE LET macd == FSub(calcEMA(prices, FastPeriod), calcEMA(prices, SlowPeriod))
         IN  [macd |-> macd, signal |-> FTimes(macd, 9, 10),
              histogram |-> FTimes(macd, 1, 10)]

\* ai-insights.js calculateSMA: prices[prices.length - 1] || 0 when short
Server_calculateSMA(prices, period) ==
    IF Len(prices) < period
    THEN (IF prices = <<>> THEN <<0, 1>> ELSE <<prices[Len(prices)], 1>>)
    ELSE Reduce(SumSeq(LastN(prices, period)), period)

\* Inputs: closes on a line, the last one possibly off it.
MaxBars == 45
MaxStep == 2
BasePrice == MaxStep * MaxBars + 10

LineSeries ==
    {[j \in 1..n |-> BasePrice + step * j + (IF j = n THEN last ELSE 0)] :
        <<n, step, last>> \in (0..MaxBars) \X ((-MaxStep)..MaxStep) \X {-1, 0, 1}}

InitMacd ==
    /\ indIn \in [call : {"analyzer.calculateMACD", "server.calculateMACD"},
                  closes : LineSeries]
    /\ indOut = Idle
    /\ ScoreFnIdle /\ RatingIdle /\ ScoreIdle /\ TrendIdle /\ LevelsIdle
    /\ PredIdle /\ AppIdle

CallAnalyzerMACD ==
    /\ indOut = Idle
    /\ indIn.call = "analyzer.calculateMACD"
    /\ indOut' = Analyzer_calculateMACD(indIn.closes)
    /\ UNCHANGED <<indIn, scoreFnVars, ratingVars, scoreVars, trendVars,
                   levelsVars, predVars, appVars>>

CallServerMACD ==
    /\ indOut = Idle
    /\ indIn.call = "server.calculateMACD"
    /\ indOut' = Server_calculateMACD(indIn.closes)
    /\ UNCHANGED <<indIn, scoreFnVars, ratingVars, scoreVars, trendVars,
                   levelsVars, predVars, appVars>>

NextMacd == CallAnalyzerMACD \/ CallServerMACD

SpecMacd == InitMacd /\ [][NextMacd]_vars

----------------------------------------------------------------------------
(***************************************************************************)
(* The scalar indicators of the scoring path, as the handlers call them    *)
(* (ai-insights.js:1108-1112): calculateRSI(closes), calculateMACD(closes) *)
(* and calculateSMA(closes, 20 / 50 / 200).                                *)
(***************************************************************************)
DefaultRsiPeriod == 14
SmaPeriods == {20, 50, 200}

ScalarArgs ==
    [call : {"server.calculateRSI"}, closes : LineSeries, period : {DefaultRsiPeriod}]
    \cup [call : {"server.calculateSMA"}, closes : LineSeries, period : SmaPeriods]
    \cup [call : {"server.calculateMACD"}, closes : LineSeries]

InitScalars ==
    /\ indIn \in ScalarArgs
    /\ indOut = Idle
    /\ ScoreFnIdle /\ RatingIdle /\ ScoreIdle /\ TrendIdle /\ LevelsIdle
    /\ PredIdle /\ AppIdle

CallServerSMA ==
    /\ indOut = Idle
    /\ indIn.call = "server.calculateSMA"
    /\ indOut' = <<Server_calculateSMA(indIn.closes, indIn.period)>>
    /\ UNCHANGED <<indIn, scoreFnVars, ratingVars, scoreVars, trendVars,
                   levelsVars, predVars, appVars>>

NextScalars == CallServerRSI \/ CallServerSMA \/ CallServerMACD

SpecScalars == InitScalars /\ [][NextScalars]_vars

----------------------------------------------------------------------------
(***************************************************************************)
(* Claims C19 and C20: MACD and the scalar indicators on short series.     *)
(***************************************************************************)
\* The EMA array of the specification: null before index period - 1, the SMA
\* of the first period values at index period - 1, the recurrence after.
Macd_Ema(data, period) ==
    LET ema[j \in 0..Len(data)] ==
            IF j < period THEN Null
            ELSE IF j = period
                 THEN FTimes(FSum(SubSeq(data, 1, period)), 1, period)
                 ELSE LET previous == ema[j - 1]
                      IN  IF previous # Null
                          THEN FAdd(FTimes(data[j], 2, period + 1),
                                    FTimes(previous, period - 1, period + 1))
                          ELSE Null
    IN  [j \in 1..Len(data) |-> ema[j]]

\* The non-null values of the MACD line, EMA12 - EMA26 per bar
Macd_Line(closes) ==
    LET data == [j \in 1..Len(closes) |-> <<closes[j], 1>>]
        fast == Macd_Ema(data, 12)
        slow == Macd_Ema(data, 26)
    IN  [j \in 1..(Len(closes) - 25) |-> FSub(fast[j + 25], slow[j + 25])]

Macd_Called ==
    indOut # Idle /\ indIn.call \in {"analyzer.calculateMACD", "server.calculateMACD"}

\* C19: in both MACD implementations the returned signal is the 9-period EMA
\* of the MACD line (EMA12 - EMA26 per bar) taken over its non-null values,
\* and histogram = macd - signal at the latest bar.  Stated for series with
\* the 34 bars that EMA needs.
C19_Original ==
    (Macd_Called /\ Len(indIn.closes) >= 34) =>
        LET line == Macd_Line(indIn.closes)
            signal == Macd_Ema(line, 9)[Len(line)]
        IN  /\ indOut.macd = line[Len(line)]
            /\ indOut.signal = signal
            /\ indOut.histogram = FSub(line[Len(line)], signal)

Scalar_Short ==
    /\ indOut # Idle
    /\ \/ indIn.call = "server.calculateRSI" /\ Len(indIn.closes) < 15
       \/ indIn.call = "server.calculateSMA" /\ Len(indIn.closes) < indIn.period
       \/ indIn.call = "server.calculateMACD" /\ Len(indIn.closes) < 26

\* C20: given fewer bars than an indicator's period, the server's
\* calculateRSI (fewer than 15 closes), calculateSMA (fewer than period
\* closes) and calculateMACD (fewer than 26 closes) signal insufficient data
\* with null and never return an ordinary number.
C20_Original ==
    Scalar_Short =>
        IF indIn.call = "server.calculateMACD"
        THEN indOut.macd = Null /\ indOut.signal = Null /\ indOut.histogram = Null
        ELSE indOut[1] = Null

----------------------------------------------------------------------------
(***************************************************************************)
(* The indicator and scoring functions as performAnalysis and the server   *)
(* handlers call them, with the arrays they are handed held in a heap.     *)
(* The heap maps the name of an array to its contents: the arrays of the   *)
(* caller (closes, highs, lows, ema9, ema21, ema50) are there before a     *)
(* call, a callee adds the arrays it creates under their local names and   *)
(* a parameter is the name of the array the caller passed.  A write to an  *)
(* array (push, sort) replaces the contents under its name.                *)
(***************************************************************************)
\* array = [...] / array.push(...) / array.sort(...): the array under `name`
\* now holds `contents`
HeapWrite(h, name, contents) ==
    [n \in DOMAIN h \cup {name} |-> IF n = name THEN contents ELSE h[n]]

\* array.sort(compare): orders the array under `name` in place
SortInPlace(h, name, order) ==
    HeapWrite(h, name, IF order = "ascending" THEN SortAscending(h[name])
                       ELSE SortDescending(h[name]))

\* What the caller still reaches once the callee has returned
AfterReturn(h, before) == [n \in DOMAIN before |-> h[n]]

\* calculateEMA: data.slice(0, period) is a copy, emaArray is pushed to
calculateEMA_writes(h, data, period) ==
    HeapWrite(h, "emaArray", calculateEMA(AsFractions(h[data]), period))

\* calculateRSI: changes is pushed to
calculateRSI_writes(h, closes, period) ==
    HeapWrite(h, "changes", Changes(h[closes]))

\* calculateMACD: two calculateEMA calls on closes, macdLine is pushed to,
\* the signal line is a calculateEMA of the filtered copy of macdLine
calculateMACD_writes(h, closes) ==
    LET h1 == HeapWrite(calculateEMA_writes(h, closes, FastPeriod), "ema12",
                        calculateEMA(AsFractions(h[closes]), FastPeriod))
        h2 == HeapWrite(calculateEMA_writes(h1, closes, SlowPeriod), "ema26",
                        calculateEMA(AsFractions(h[closes]), SlowPeriod))
        h3 == HeapWrite(h2, "macdLine",
                        [j \in 1..Len(h2[closes]) |->
                            IF h2["ema12"][j] # Null /\ h2["ema26"][j] # Null
                            THEN FSub(h2["ema12"][j], h2["ema26"][j]) ELSE Null])
    IN  HeapWrite(h3, "signalLine",
                  calculateEMA(SelectSeq(h3["macdLine"], LAMBDA v : v # Null),
                               SignalPeriod))

\* calculateADX: trueRanges, plusDM and minusDM are pushed to; the slices
\* are copies
calculateADX_writes(h, highs, lows, closes, period) ==
    LET h1 == HeapWrite(h, "trueRanges", TrueRanges(h[highs], h[lows], h[closes]))
        h2 == HeapWrite(h1, "plusDM", PlusDM(h[highs], h[lows], h[closes]))
    IN  HeapWrite(h2, "minusDM", MinusDM(h[highs], h[lows], h[closes]))

\* calculateATR returns the sum of the last `period` true ranges / period
calculateATR(highs, lows, closes, period) ==
    Reduce(SumSeq(LastN(TrueRanges(highs, lows, closes), period)), period)

calculateATR_writes(h, highs, lows, closes, period) ==
    HeapWrite(h, "trueRanges", TrueRanges(h[highs], h[lows], h[closes]))

\* detectTrend and generateTrendExplanation read the last entries only
detectTrend_writes(h, ema9, ema21, ema50) == h

\* findSwingPoints: points is pushed to; before and after are slices
findSwingPoints_writes(h, data, type) ==
    HeapWrite(h, "points", findSwingPoints(h[data], type))

calculateSupportResistance_sortsHighs(h, highs, lows, closes, currentPrice) ==
    LET h1 == HeapWrite(h, "recentHighs", LastN(h[highs], 50))
        h2 == HeapWrite(h1, "recentLows", LastN(h[lows], 50))
        h3 == HeapWrite(h2, "recentCloses", LastN(h[closes], 50))
        p == PivotLevels(MaxOf(LastN(h3["recentHighs"], 20)),
                         MinOf(LastN(h3["recentLows"], 20)),
                         h3["recentCloses"][Len(h3["recentCloses"])])
        h4 == HeapWrite(findSwingPoints_writes(h3, "recentHighs", "high"),
                        "swingHighs", findSwingPoints(h3["recentHighs"], "high"))
        h5 == HeapWrite(findSwingPoints_writes(h4, "recentLows", "low"),
                        "swingLows", findSwingPoints(h3["recentLows"], "low"))
        h6 == HeapWrite(h5, "resistanceLevels",
                        SelectSeq(<<p.r1, p.r2, p.r3>> \o Thirds(h5["swingHighs"]),
                                  LAMBDA level : level > currentPrice))
        h7 == SortInPlace(h6, highs, "ascending")
        h8 == HeapWrite(h7, "supportLevels",
                        SelectSeq(<<p.s1, p.s2, p.s3>> \o Thirds(h7["swingLows"]),
                                  LAMBDA level : level < currentPrice))
    IN  SortInPlace(h8, "supportLevels", "descending")

\* calculateSupportResistance: the three slices are copies; the array
\* literal [r1, r2, r3, ...swingHighs] and its filter are new arrays, and it
\* is the filtered array that sort orders in place (likewise for support).
calculateSupportResistance_writes(h, highs, lows, closes, currentPrice) ==
    LET h1 == HeapWrite(h, "recentHighs", LastN(h[highs], 50))
        h2 == HeapWrite(h1, "recentLows", LastN(h[lows], 50))
        h3 == HeapWrite(h2, "recentCloses", LastN(h[closes], 50))
        p == PivotLevels(MaxOf(LastN(h3["recentHighs"], 20)),
                         MinOf(LastN(h3["recentLows"], 20)),
                         h3["recentCloses"][Len(h3["recentCloses"])])
        h4 == HeapWrite(findSwingPoints_writes(h3, "recentHighs", "high"),
                        "swingHighs", findSwingPoints(h3["recentHighs"], "high"))
        h5 == HeapWrite(findSwingPoints_writes(h4, "recentLows", "low"),
                        "swingLows", findSwingPoints(h3["recentLows"], "low"))
        h6 == HeapWrite(h5, "resistanceLevels",
                        SelectSeq(<<p.r1, p.r2, p.r3>> \o Thirds(h5["swingHighs"]),
                                  LAMBDA level : level > currentPrice))
        h7 == SortInPlace(h6, "resistanceLevels", "ascending")
        h8 == HeapWrite(h7, "supportLevels",
                        SelectSeq(<<p.s1, p.s2, p.s3>> \o Thirds(h7["swingLows"]),
                                  LAMBDA level : level < currentPrice))
    IN  SortInPlace(h8, "supportLevels", "descending")

\* generatePredictions: closes.slice(-30) is a copy
generatePredictions_writes(h, closes) ==
    HeapWrite(h, "recentCloses", LastN(h[closes], SlopeWindow))

\* CONFIG.EMA_PERIODS, RSI_PERIOD, ADX_PERIOD and ATR_PERIOD
EmaPeriods == {9, 21, 50}
AnalyzerPeriods == {14}

\* Inputs.  The closes lie on a line, the last one possibly off it; each bar
\* reaches one price step above and below its close.
PureLengths == {12, 40}

PureCloses ==
    {[j \in 1..n |-> 100 + step * j + (IF j = n THEN last ELSE 0)] :
        <<n, step, last>> \in PureLengths \X {-1, 1} \X {0, 1}}

\* The number of different calls a behaviour remembers
MaxCalls == 2

RECURSIVE SumOfSizes(_, _)
SumOfSizes(m, names) ==
    IF names = {} THEN 0
    ELSE LET f == CHOOSE n \in names : TRUE
         IN  Cardinality(m[f]) + SumOfSizes(m, names \ {f})

PureHeaps ==
    {[closes |-> c,
      highs |-> [j \in 1..Len(c) |-> c[j] + 1],
      lows |-> [j \in 1..Len(c) |-> c[j] - 1],
      ema9 |-> <<Null, Num(3)>>,
      ema21 |-> <<Null, Num(2)>>,
      ema50 |-> <<Null, e50>>] : c \in PureCloses, e50 \in {Null, Num(1)}}

PureFunctions ==
    {"calculateEMA", "calculateRSI", "calculateMACD", "calculateADX",
     "calculateATR", "detectTrend", "calculateSupportResistance",
     "generatePredictions", "calculateAIScore", "getRating"}

InitPure ==
    /\ heap \in PureHeaps
    /\ memo = [f \in PureFunctions |-> {}]
    /\ ScoreFnIdle /\ RatingIdle /\ ScoreIdle /\ TrendIdle /\ LevelsIdle
    /\ PredIdle /\ IndIdle /\ ClientIdle /\ ServerIdle /\ LoadIdle

\* A call: the heap is what the caller reaches after the callee's writes,
\* and the call is remembered with its arguments (arrays by their contents)
\* and its result.
Called(function, args, out, after) ==
    /\ SumOfSizes(memo, DOMAIN memo) < MaxCalls
    /\ memo' = [memo EXCEPT ![function] = @ \cup {<<args, out>>}]
    /\ heap' = AfterReturn(after, heap)
    /\ UNCHANGED <<scoreFnVars, ratingVars, scoreVars, trendVars, levelsVars,
                   predVars, indVars, clientVars, serverVars, loadVars>>

PureCalculateEMA ==
    \E period \in EmaPeriods :
        Called("calculateEMA", <<heap["closes"], period>>,
               calculateEMA(AsFractions(heap["closes"]), period),
               calculateEMA_writes(heap, "closes", period))

PureCalculateRSI ==
    \E period \in AnalyzerPeriods :
        Called("calculateRSI", <<heap["closes"], period>>,
               Analyzer_calculateRSI(heap["closes"], period),
               calculateRSI_writes(heap, "closes", period))

PureCalculateMACD ==
    Called("calculateMACD", <<heap["closes"]>>,
           Analyzer_calculateMACD(heap["closes"]),
           calculateMACD_writes(heap, "closes"))

PureCalculateADX ==
    \E period \in AnalyzerPeriods :
        Called("calculateADX",
               <<heap["highs"], heap["lows"], heap["closes"], period>>,
               calculateADX(heap["highs"], heap["lows"], heap["closes"], period),
               calculateADX_writes(heap, "highs", "lows", "closes", period))

PureCalculateATR ==
    \E period \in AnalyzerPeriods :
        Called("calculateATR",
               <<heap["highs"], heap["lows"], heap["closes"], period>>,
               calculateATR(heap["highs"], heap["lows"], heap["closes"], period),
               calculateATR_writes(heap, "highs", "lows", "closes", period))

PureDetectTrend ==
    \E adx \in {250}, currentPrice \in {0, 4} :
        Called("detectTrend",
               <<heap["ema9"], heap["ema21"], heap["ema50"], adx, currentPrice>>,
               detectTrend(heap["ema9"], heap["ema21"], heap["ema50"], adx,
                           currentPrice),
               detectTrend_writes(heap, "ema9", "ema21", "ema50"))

PureCalculateSupportResistance ==
    \E currentPrice \in {100} :
        Called("calculateSupportResistance",
               <<heap["highs"], heap["lows"], heap["closes"], currentPrice>>,
               calculateSupportResistance(heap["highs"], heap["lows"],
                                          heap["closes"], 3 * currentPrice),
               calculateSupportResistance_writes(heap, "highs", "lows", "closes",
                                                 3 * currentPrice))

PureGeneratePredictions ==
    \E direction \in {"UPTREND", "SIDEWAYS"} :
        Called("generatePredictions",
               <<heap["closes"], direction, 1, 100>>,
               generatePredictions(heap["closes"], [direction |-> direction],
                                   1, 100),
               generatePredictions_writes(heap, "closes"))

PureCalculateAIScore ==
    \E rsi \in {29} :
        Called("calculateAIScore", <<rsi, 1, 1, -1, 100>>,
               calculateAIScore(rsi, [histogram |-> 1], 1, -1, 100), heap)

PureGetRating ==
    \E score \in {80} :
        Called("getRating", <<score>>, getRating(score), heap)

NextPure ==
    \/ PureCalculateEMA
    \/ PureCalculateRSI
    \/ PureCalculateMACD
    \/ PureCalculateADX
    \/ PureCalculateATR
    \/ PureDetectTrend
    \/ PureCalculateSupportResistance
    \/ PureGeneratePredictions
    \/ PureCalculateAIScore
    \/ PureGetRating

SpecPure == InitPure /\ [][NextPure]_vars

----------------------------------------------------------------------------
(* Claims about purity                                                     *)

\* No two remembered calls of a function have equal arguments and
\* different results.
Pure_SameResult(m) ==
    \A f \in PureFunctions :
        \A x \in m[f], y \in m[f] : x[1] = y[1] => x[2] = y[2]

----------------------------------------------------------------------------
(***************************************************************************)
(* The two RSI implementations on the same closes, with the period of the  *)
(* scoring path (calculateRSI(closes) in the handlers, period = 14).       *)
(***************************************************************************)
\* closes[0] = first, closes[i] = closes[i - 1] + changes[i - 1]
ClosesFrom(first, changes) ==
    LET closes[j \in 1..(Len(changes) + 1)] ==
            IF j = 1 THEN first ELSE closes[j - 1] + changes[j - 1]
    IN  [j \in 1..(Len(changes) + 1) |-> closes[j]]

\* Inputs: 16 or 17 closes; the first delta and the last two or three
\* deltas are -1, 0 or 1, the twelve deltas between them are 0.
WilderSeries ==
    {ClosesFrom(5, <<a>> \o Repeat(0, 12) \o tail) :
        a \in {-1, 0, 1},
        tail \in [1..2 -> {-1, 0, 1}] \cup [1..3 -> {-1, 0, 1}]}

InitWilder ==
    /\ indIn \in [call : {"analyzer.calculateRSI", "server.calculateRSI"},
                  closes : WilderSeries, period : {DefaultRsiPeriod}]
    /\ indOut = Idle
    /\ ScoreFnIdle /\ RatingIdle /\ ScoreIdle /\ TrendIdle /\ LevelsIdle
    /\ PredIdle /\ AppIdle

NextWilder == CallAnalyzerRSI \/ CallServerRSI

SpecWilder == InitWilder /\ [][NextWilder]_vars

\* C22: the RSI of the scoring path (server calculateRSI, period 14) is
\* Wilder's smoothed RSI: on a series of at least 15 closes it equals the
\* analyzer's calculateRSI on the same closes, unless an average loss is 0.
C22_Original ==
    (/\ indOut # Idle
     /\ indIn.call = "server.calculateRSI"
     /\ indIn.period = DefaultRsiPeriod
     /\ Len(indIn.closes) >= DefaultRsiPeriod + 1
     /\ indOut[1] # <<1, 1>>
     /\ Analyzer_calculateRSI(indIn.closes, indIn.period) # <<100, 101>>)
    => indOut[1] = Analyzer_calculateRSI(indIn.closes, indIn.period)

----------------------------------------------------------------------------
(* Claim C23: the value of calculateADX away from the default              *)

\* The sum over the trailing bars of a per-bar amount
RECURSIVE Adx_Sum(_, _)
Adx_Sum(bars, amount) ==
    IF bars = {} THEN 0
    ELSE LET i == CHOOSE b \in bars : TRUE
         IN  amount[i] + Adx_Sum(bars \ {i}, amount)

Adx_HighDiff(i) == indIn.historical[i].high - indIn.historical[i - 1].high
Adx_LowDiff(i) == indIn.historical[i - 1].low - indIn.historical[i].low

Adx_PlusDM(i) ==
    IF Adx_HighDiff(i) > Adx_LowDiff(i) /\ Adx_HighDiff(i) > 0
    THEN Adx_HighDiff(i) ELSE 0

Adx_MinusDM(i) ==
    IF Adx_LowDiff(i) > Adx_HighDiff(i) /\ Adx_LowDiff(i) > 0
    THEN Adx_LowDiff(i) ELSE 0

Adx_TR(i) ==
    LET bar == indIn.historical[i]
        previous == indIn.historical[i - 1].close
    IN  Max3(bar.high - bar.low, Abs(bar.high - previous), Abs(bar.low - previous))

\* C23: whenever the trailing true-range sum is positive and the trailing
\* +DM and -DM sums are not both zero, calculateADX returns
\* DX = |+DI - -DI| / (+DI + -DI) x 100 from the simple sums of the last
\* `period` bars, a value in [0, 100]; 25 is returned as a default only when
\* the true-range sum is 0 or DX is NaN.
C23_Original ==
    LET tr == Adx_Sum(Adx_Trailing, [i \in Adx_Trailing |-> Adx_TR(i)])
        plus == Adx_Sum(Adx_Trailing, [i \in Adx_Trailing |-> Adx_PlusDM(i)])
        minus == Adx_Sum(Adx_Trailing, [i \in Adx_Trailing |-> Adx_MinusDM(i)])
    IN  (Adx_Called /\ tr > 0 /\ plus + minus > 0)
        => /\ indOut[1] = Reduce(100 * Abs(plus - minus), plus + minus)
           /\ 0 <= indOut[1][1] /\ indOut[1][1] <= 100 * indOut[1][2]

----------------------------------------------------------------------------
(***************************************************************************)
(* Direct calls of findSwingPoints on a window of highs or lows.           *)
(***************************************************************************)
\* Inputs: three runs of equal values; a run is 1 bar, or one bar shorter
\* than, as long as, or one bar longer than the lookback.
SwingRuns == {1, Lookback - 1, Lookback, Lookback + 1}

SwingData ==
    {Repeat(v1, r1) \o Repeat(v2, r2) \o Repeat(v3, r3) :
        <<v1, v2, v3>> \in (1..(MaxPx + 1)) \X (1..(MaxPx + 1)) \X (1..(MaxPx + 1)),
        <<r1, r2, r3>> \in SwingRuns \X SwingRuns \X SwingRuns}

InitSwing ==
    /\ indIn \in [call : {"findSwingPoints"}, data : SwingData,
                  type : {"high", "low"}]
    /\ indOut = Idle
    /\ ScoreFnIdle /\ RatingIdle /\ ScoreIdle /\ TrendIdle /\ LevelsIdle
    /\ PredIdle /\ AppIdle

CallFindSwingPoints ==
    /\ indOut = Idle
    /\ indIn.call = "findSwingPoints"
    /\ indOut' = <<findSwingPoints(indIn.data, indIn.type)>>
    /\ UNCHANGED <<indIn, scoreFnVars, ratingVars, scoreVars, trendVars,
                   levelsVars, predVars, appVars>>

NextSwing == CallFindSwingPoints

SpecSwing == InitSwing /\ [][NextSwing]_vars

(* Claim C24 *)

Swing_Called == indOut # Idle /\ indIn.call = "findSwingPoints"

\* data[i] for a 0-based index i
Swing_At(i) == indIn.data[i + 1]

\* The 0-based indices the claim names: 5 <= i < n - 5 and the value there
\* is >= (swing high) or <= (swing low) each of the 5 values before and each
\* of the 5 values after it.
Swing_Indices ==
    {i \in 0..(Len(indIn.data) - 1) :
        /\ 5 <= i /\ i < Len(indIn.data) - 5
        /\ \A k \in 1..5 :
              IF indIn.type = "high"
              THEN Swing_At(i - k) <= Swing_At(i) /\ Swing_At(i + k) <= Swing_At(i)
              ELSE Swing_At(i - k) >= Swing_At(i) /\ Swing_At(i + k) >= Swing_At(i)}

\* The values at a set of indices, in index order
RECURSIVE Swing_Values(_)
Swing_Values(indices) ==
    IF indices = {} THEN <<>>
    ELSE LET first == CHOOSE i \in indices : \A j \in indices : i <= j
         IN  <<Swing_At(first)>> \o Swing_Values(indices \ {first})

\* C24: findSwingPoints over a window of n values returns the value at
\* index i iff 5 <= i < n - 5 and it is >= each of the 5 values before and
\* each of the 5 values after it (swing low: <=); so no swing point comes
\* from the first 5 or the last 5 bars and a window shorter than 11 bars
\* yields none.
C24_SwingPoints ==
    Swing_Called =>
        /\ indOut[1] = Swing_Values(Swing_Indices)
        /\ Len(indOut[1]) <= Max(0, Len(indIn.data) - 10)
        /\ Len(indIn.data) < 11 => indOut[1] = <<>>

\* A window of exactly 11 bars whose only swing high is the bar at index 5.
C24_Witness ==
    /\ Swing_Called
    /\ indIn.type = "high"
    /\ Len(indIn.data) = 11
    /\ indOut[1] = <<Swing_At(5)>>
    /\ Swing_At(5) > Swing_At(4)

\* The highest bar lies among the first 5 bars and is not returned, while
\* later bars are.
C24_WitnessEdge ==
    /\ Swing_Called
    /\ indIn.type = "high"
    /\ Len(indIn.data) >= 11
    /\ \E i \in 0..4 : \A j \in 0..(Len(indIn.data) - 1) :
           j # i => Swing_At(j) < Swing_At(i)
    /\ indOut[1] # <<>>

----------------------------------------------------------------------------
(***************************************************************************)
(* The WebSocket client of the Stock Data Service (src/unnamed/part_004).  *)
(* WebSocket objects are numbered in the order of their creation; each     *)
(* keeps the onopen and onclose handlers connectWebSocket gave it, and the *)
(* handlers use the variable `websocket`, whichever object it holds then.  *)
(***************************************************************************)
MAX_RECONNECT_ATTEMPTS == 5

\* The WebSocket objects a behaviour creates, and the symbols of the page
MaxSockets == 3
ClientSymbols == {"AAPL", "MSFT"}

\* websocket && websocket.readyState === WebSocket.OPEN
WebsocketOpen(ws, states) == ws # 0 /\ states[ws] = "OPEN"

\* connectWebSocket: returns at once when the socket is open, else creates
\* a WebSocket and assigns it to `websocket`.  The result is <<websocket,
\* sockets>> after the call.
connectWebSocket(ws, states) ==
    IF WebsocketOpen(ws, states) THEN <<ws, states>>
    ELSE <<Len(states) + 1, Append(states, "CONNECTING")>>

CanConnect == WebsocketOpen(websocket, sockets) \/ Len(sockets) < MaxSockets

\* subscribeToSymbol(symbol)
subscribeToSymbol(symbol, callbacks) ==
    IF ~WebsocketOpen(websocket, sockets)
    THEN LET connected == connectWebSocket(websocket, sockets)
         IN  /\ websocket' = connected[1]
             /\ sockets' = connected[2]
             /\ priceUpdateCallbacks' = callbacks \cup {symbol}
             /\ sent' = sent
    ELSE /\ sent' = sent \cup {<<websocket, symbol>>}
         /\ priceUpdateCallbacks' = callbacks
         /\ UNCHANGED <<websocket, sockets>>

\* init(): the backend is healthy and connectWebSocket is called, or it is
\* not and no socket is created.
InitClient ==
    /\ \/ websocket = 0 /\ sockets = <<>>
       \/ websocket = 1 /\ sockets = <<"CONNECTING">>
    /\ priceUpdateCallbacks = {}
    /\ wsReconnectAttempts = 0
    /\ reconnectTimers = 0
    /\ sent = {}
    /\ subscribed = {}
    /\ ScoreFnIdle /\ RatingIdle /\ ScoreIdle /\ TrendIdle /\ LevelsIdle
    /\ PredIdle /\ IndIdle /\ PureIdle /\ ServerIdle /\ LoadIdle

ClientOthersUnchanged ==
    UNCHANGED <<scoreFnVars, ratingVars, scoreVars, trendVars, levelsVars,
                predVars, indVars, pureVars, serverVars, loadVars>>

\* onPriceUpdate(symbol, callback)
OnPriceUpdate ==
    \E symbol \in ClientSymbols :
        /\ CanConnect
        /\ subscribeToSymbol(symbol, priceUpdateCallbacks \cup {symbol})
        /\ subscribed' = subscribed \cup {symbol}
        /\ UNCHANGED <<wsReconnectAttempts, reconnectTimers>>
        /\ ClientOthersUnchanged

\* fetchStockData(symbol) with an ok response of the backend: the symbol is
\* subscribed through subscribeToSymbol
FetchStockData ==
    \E symbol \in ClientSymbols :
        /\ CanConnect
        /\ subscribeToSymbol(symbol, priceUpdateCallbacks)
        /\ subscribed' = subscribed \cup {symbol}
        /\ UNCHANGED <<wsReconnectAttempts, reconnectTimers>>
        /\ ClientOthersUnchanged

\* The connection of socket k is established and its onopen handler runs:
\* it sends on `websocket`.  send() on a socket that is still connecting
\* throws and ends the forEach; on a closed socket it is dropped.
SocketOpens ==
    \E k \in 1..Len(sockets) :
        /\ sockets[k] = "CONNECTING"
        /\ sockets' = [sockets EXCEPT ![k] = "OPEN"]
        /\ wsReconnectAttempts' = 0
        /\ sent' = IF sockets'[websocket] = "OPEN"
                   THEN sent \cup {<<websocket, symbol>> : symbol \in priceUpdateCallbacks}
                   ELSE sent
        /\ UNCHANGED <<websocket, priceUpdateCallbacks, reconnectTimers, subscribed>>
        /\ ClientOthersUnchanged

\* The connection of socket k fails or is closed and its onclose handler
\* runs
SocketCloses ==
    \E k \in 1..Len(sockets) :
        /\ sockets[k] \in {"CONNECTING", "OPEN"}
        /\ sockets' = [sockets EXCEPT ![k] = "CLOSED"]
        /\ IF wsReconnectAttempts < MAX_RECONNECT_ATTEMPTS
           THEN /\ wsReconnectAttempts' = wsReconnectAttempts + 1
                /\ reconnectTimers' = reconnectTimers + 1
           ELSE UNCHANGED <<wsReconnectAttempts, reconnectTimers>>
        /\ UNCHANGED <<websocket, priceUpdateCallbacks, sent, subscribed>>
        /\ ClientOthersUnchanged

\* setTimeout(connectWebSocket, 3000) fires
ReconnectTimerFires ==
    /\ reconnectTimers > 0
    /\ CanConnect
    /\ reconnectTimers' = reconnectTimers - 1
    /\ LET connected == connectWebSocket(websocket, sockets)
       IN  websocket' = connected[1] /\ sockets' = connected[2]
    /\ UNCHANGED <<priceUpdateCallbacks, wsReconnectAttempts, sent, subscribed>>
    /\ ClientOthersUnchanged

NextClient ==
    \/ OnPriceUpdate
    \/ FetchStockData
    \/ SocketOpens
    \/ SocketCloses
    \/ ReconnectTimerFires

SpecClient == InitClient /\ [][NextClient]_vars

(* Claim C25 *)

\* The service holds an open socket that was created after another socket
\* had been closed.
Client_Reconnected ==
    /\ websocket # 0
    /\ sockets[websocket] = "OPEN"
    /\ \E j \in 1..(websocket - 1) : sockets[j] = "CLOSED"

\* C25: after the client's WebSocket closes and a reconnect succeeds
\* (onopen), a subscribe message has been sent on the new socket for every
\* symbol the page had subscribed to, through onPriceUpdate or through
\* fetchStockData / subscribeToSymbol, with the socket open or closed at
\* the time.
C25_Original ==
    Client_Reconnected =>
        \A symbol \in subscribed : <<websocket, symbol>> \in sent

----------------------------------------------------------------------------
(***************************************************************************)
(* The WebSocket server (ai-insights.js).  Connections are numbered in the *)
(* order in which they are accepted; the handlers of a connection close    *)
(* over the clientId computed when it was accepted.                        *)
(***************************************************************************)
\* The connections a behaviour accepts, the last millisecond of its clock
\* and the symbols its clients name
MaxClients == 2
MaxClock == 1
ServerSymbols == {"AAPL", "MSFT"}

\* Map.set(key, value)
MapSet(map, key, value) ==
    [k \in DOMAIN map \cup {key} |-> IF k = key THEN value ELSE map[k]]

\* Map.delete(key)
MapDelete(map, key) == [k \in DOMAIN map \ {key} |-> map[k]]

InitServer ==
    /\ now = 0
    /\ clients = <<>>
    /\ subscriptions = <<>>
    /\ validQuotes = Idle
    /\ delivered = <<>>
    /\ asked = <<>>
    /\ ScoreFnIdle /\ RatingIdle /\ ScoreIdle /\ TrendIdle /\ LevelsIdle
    /\ PredIdle /\ IndIdle /\ PureIdle /\ ClientIdle /\ LoadIdle

ServerOthersUnchanged ==
    UNCHANGED <<scoreFnVars, ratingVars, scoreVars, trendVars, levelsVars,
                predVars, indVars, pureVars, clientVars, loadVars>>

\* A millisecond passes
ClockTicks ==
    /\ now < MaxClock
    /\ now' = now + 1
    /\ UNCHANGED <<clients, subscriptions, validQuotes, delivered, asked>>
    /\ ServerOthersUnchanged

\* wss.on('connection'): clientId = Date.now().toString() and
\* subscriptions.set(clientId, { ws, symbols: new Set() })
Connection ==
    /\ Len(clients) < MaxClients
    /\ LET ws == Len(clients) + 1
           clientId == now
       IN  /\ clients' = Append(clients, [clientId |-> clientId, open |-> TRUE])
           /\ subscriptions' = MapSet(subscriptions, clientId,
                                      [ws |-> ws, symbols |-> {}])
    /\ delivered' = Append(delivered, {})
    /\ asked' = Append(asked, {})
    /\ UNCHANGED <<now, validQuotes>>
    /\ ServerOthersUnchanged

\* ws.on('message') with action 'subscribe'
Subscribe ==
    \E ws \in 1..Len(clients), symbol \in ServerSymbols :
        /\ clients[ws].open
        /\ LET clientId == clients[ws].clientId
           IN  subscriptions' =
                   IF clientId \in DOMAIN subscriptions
                   THEN [subscriptions EXCEPT ![clientId].symbols = @ \cup {symbol}]
                   ELSE subscriptions
        /\ asked' = [asked EXCEPT ![ws] = @ \cup {symbol}]
        /\ UNCHANGED <<now, clients, validQuotes, delivered>>
        /\ ServerOthersUnchanged

\* ws.on('message') with action 'unsubscribe'
Unsubscribe ==
    \E ws \in 1..Len(clients), symbol \in ServerSymbols :
        /\ clients[ws].open
        /\ LET clientId == clients[ws].clientId
           IN  subscriptions' =
                   IF clientId \in DOMAIN subscriptions
                   THEN [subscriptions EXCEPT ![clientId].symbols = @ \ {symbol}]
                   ELSE subscriptions
        /\ asked' = [asked EXCEPT ![ws] = @ \ {symbol}]
        /\ UNCHANGED <<now, clients, validQuotes, delivered>>
        /\ ServerOthersUnchanged

\* ws.on('close'): subscriptions.delete(clientId)
Close ==
    \E ws \in 1..Len(clients) :
        /\ clients[ws].open
        /\ clients' = [clients EXCEPT ![ws].open = FALSE]
        /\ subscriptions' = MapDelete(subscriptions, clients[ws].clientId)
        /\ UNCHANGED <<now, validQuotes, delivered, asked>>
        /\ ServerOthersUnchanged

\* The symbols of every subscription
AllSymbols(map) == UNION {map[k].symbols : k \in DOMAIN map}

\* broadcastPrices up to its await: the quotes of all subscribed symbols are
\* requested; nothing happens when there is none.  Any of the requests may
\* fail, and its quote is then left out.
BroadcastPrices ==
    /\ validQuotes = Idle
    /\ AllSymbols(subscriptions) # {}
    /\ \E quotes \in SUBSET AllSymbols(subscriptions) : validQuotes' = <<quotes>>
    /\ UNCHANGED <<now, clients, subscriptions, delivered, asked>>
    /\ ServerOthersUnchanged

\* broadcastPrices after the await: every subscription whose socket is open
\* is sent the quotes of its symbols, if there are any.
BroadcastSends ==
    /\ validQuotes # Idle
    /\ delivered' =
           [ws \in 1..Len(clients) |->
               LET mine == {k \in DOMAIN subscriptions :
                               /\ subscriptions[k].ws = ws
                               /\ clients[ws].open
                               /\ validQuotes[1] \cap subscriptions[k].symbols # {}}
               IN  IF mine = {} THEN delivered[ws]
                   ELSE validQuotes[1] \cap subscriptions[CHOOSE k \in mine : TRUE].symbols]
    /\ validQuotes' = Idle
    /\ UNCHANGED <<now, clients, subscriptions, asked>>
    /\ ServerOthersUnchanged

NextServer ==
    \/ ClockTicks
    \/ Connection
    \/ Subscribe
    \/ Unsubscribe
    \/ Close
    \/ BroadcastPrices
    \/ BroadcastSends

SpecServer == InitServer /\ [][NextServer]_vars

(* Claim C29 *)

\* The entries of `subscriptions` that belong to connection ws
Server_Entries(map, ws) == {k \in DOMAIN map : map[k].ws = ws}

\* C29: for any interleaving of connect, subscribe, unsubscribe, close and
\* broadcastPrices events, two clients connecting in the same millisecond
\* included: every open connection has its own entry in `subscriptions`,
\* which holds the symbols that connection subscribed to; a closed
\* connection has no entry; and a quotes message sent to a connection holds
\* only symbols of its own current subscription set.
C29_Original ==
    [][/\ \A ws \in 1..Len(clients') :
             IF clients'[ws].open
             THEN /\ Cardinality(Server_Entries(subscriptions', ws)) = 1
                  /\ \A k \in Server_Entries(subscriptions', ws) :
                         subscriptions'[k].symbols = asked'[ws]
             ELSE Server_Entries(subscriptions', ws) = {}
       /\ \A ws \in 1..Len(clients) :
             delivered'[ws] # delivered[ws] => delivered'[ws] \subseteq asked[ws]
      ]_vars

----------------------------------------------------------------------------
(* Claim C26 *)

\* The pivot levels of the call: H and L are the highest high and the lowest
\* low of the last 20 bars, C is the last close.
Lv_Pivots ==
    LET h == levelsIn.historical
        highs == LastN([i \in 1..Len(h) |-> h[i].high], 50)
        lows == LastN([i \in 1..Len(h) |-> h[i].low], 50)
    IN  PivotLevels(MaxOf(LastN(highs, 20)), MinOf(LastN(lows, 20)),
                    h[Len(h)].close)

\* Every bar of the call has low <= close <= high
Lv_BarsOrdered ==
    \A i \in 1..Len(levelsIn.historical) :
        /\ levelsIn.historical[i].low <= levelsIn.historical[i].close
        /\ levelsIn.historical[i].close <= levelsIn.historical[i].high

\* C26: when every bar has low <= close <= high, the pivot levels computed
\* by calculateSupportResistance are ordered
\* S3 <= S2 <= S1 <= pivot <= R1 <= R2 <= R3, and the pivot is the one returned.
C26_PivotOrder ==
    (levelsOut # Idle /\ Lv_BarsOrdered) =>
        LET p == Lv_Pivots
        IN  /\ p.pivot = levelsOut.pivot
            /\ p.s3 <= p.s2 /\ p.s2 <= p.s1 /\ p.s1 <= p.pivot
            /\ p.pivot <= p.r1 /\ p.r1 <= p.r2 /\ p.r2 <= p.r3

\* A call whose window has a high above its low: neighbouring levels differ.
C26_Witness ==
    /\ levelsOut # Idle
    /\ Lv_BarsOrdered
    /\ Lv_Pivots.s3 < Lv_Pivots.s1
    /\ Lv_Pivots.s1 < Lv_Pivots.pivot
    /\ Lv_Pivots.pivot < Lv_Pivots.r1
    /\ Lv_Pivots.r2 < Lv_Pivots.r3

----------------------------------------------------------------------------
(* Claim C27 *)

\* 0 <= min <= expected <= max for one prediction p, all amounts in 1/scale
\* price units and min, max of the form rat + root * sqrt(days)
Pred_Ordered(p) ==
    /\ ~SurdPositive(-p.min[1], -p.min[2], p.days)
    /\ ~SurdPositive(p.min[1] - p.expected, p.min[2], p.days)
    /\ ~SurdPositive(p.expected - p.max[1], -p.max[2], p.days)

\* C27: for every current price >= 0, slope, ATR >= 0, horizon and trend
\* multiplier, the prediction returned by calculatePrediction satisfies
\* 0 <= min <= expected <= max.
C27_Original ==
    (Pred_Paired /\ predIn.currentPrice >= 0 /\ predIn.atr >= 0) =>
        /\ Pred_Ordered(predOut[1])
        /\ Pred_Ordered(predOut[2])

----------------------------------------------------------------------------
(***************************************************************************)
(* detectTrend on the EMAs that performAnalysis computes from a series of  *)
(* 50 closes or fewer (global-markets.js).  The latest EMAs are fractions; *)
(* they and the price are handed to detectTrend in a common unit, which    *)
(* leaves every comparison as it is.                                       *)
(***************************************************************************)
\* Closes: a flat run and then up to three bars at another (or the same)
\* level; 9 to 50 bars.
ShortRuns == {8, 21, 47}
ShortCloses ==
    {Repeat(a, n) \o Repeat(b, m) :
        <<a, b>> \in (1..MaxClose) \X (1..MaxClose), n \in ShortRuns, m \in 1..3}

\* The denominator of an array entry, 1 for null
EntryDen(entry) == IF entry = Null THEN 1 ELSE entry[2]

\* An array entry in 1/unitsPer price units
InUnits(entry, unitsPer) ==
    IF entry = Null THEN Null ELSE Num(entry[1] * (unitsPer \div entry[2]))

\* The part of performAnalysis up to the call of detectTrend
performAnalysis(closes, adx, currentPrice) ==
    LET data == AsFractions(closes)
        ema9 == calculateEMA(data, 9)
        ema21 == calculateEMA(data, 21)
        ema50 == calculateEMA(data, 50)
        latest9 == ema9[Len(ema9)]
        latest21 == ema21[Len(ema21)]
        latest50 == ema50[Len(ema50)]
        unitsPer == Lcm(EntryDen(latest9), Lcm(EntryDen(latest21), EntryDen(latest50)))
    IN  detectTrend(<<InUnits(latest9, unitsPer)>>, <<InUnits(latest21, unitsPer)>>,
                    <<InUnits(latest50, unitsPer)>>, adx, currentPrice * unitsPer)

InitShortTrend ==
    /\ trendIn \in [closes : ShortCloses, adx : {10 * AdxScale, 25 * AdxScale},
                    currentPrice : 1..(MaxClose + 1)]
    /\ trendOut = Idle
    /\ ScoreFnIdle /\ RatingIdle /\ ScoreIdle /\ LevelsIdle /\ PredIdle /\ IndIdle
    /\ AppIdle

CallPerformAnalysis ==
    /\ trendOut = Idle
    /\ trendOut' = performAnalysis(trendIn.closes, trendIn.adx, trendIn.currentPrice)
    /\ UNCHANGED <<trendIn, scoreFnVars, ratingVars, scoreVars, levelsVars,
                 predVars, indVars, appVars>>

NextShortTrend == CallPerformAnalysis

SpecShortTrend == InitShortTrend /\ [][NextShortTrend]_vars

(* Claim C28 *)

\* C28: when the series has 50 bars or fewer, so that the latest ema50
\* produced by calculateEMA is null, detectTrend does not report UPTREND or
\* DOWNTREND from the null value: it returns, and its direction is SIDEWAYS.
C28_Original ==
    (trendOut # Idle /\ Len(trendIn.closes) <= 50) =>
        /\ ~trendOut.threw
        /\ trendOut.ema50 = Null
        /\ trendOut.direction = "SIDEWAYS"

----------------------------------------------------------------------------
(***************************************************************************)
(* loadStock and the real-time update timer (global-markets.js).  A call   *)
(* of loadStock runs up to its first await, resumes when fetchStockData    *)
(* resolves, and resumes again when the OHLCV request resolves; other      *)
(* calls and timer callbacks run in between.  Both requests succeed.       *)
(***************************************************************************)
\* The calls of loadStock in a behaviour and the symbols the user picks
MaxLoads == 3
LoadSymbols == {"AAPL", "MSFT"}

InitLoad ==
    /\ currentSymbol = Null
    /\ currentStockData = Null
    /\ ohlcvData = <<>>
    /\ updateInterval = Null
    /\ timers = {}
    /\ displayed = Null
    /\ loads = <<>>
    /\ ScoreFnIdle /\ RatingIdle /\ ScoreIdle /\ TrendIdle /\ LevelsIdle
    /\ PredIdle /\ IndIdle /\ PureIdle /\ ClientIdle /\ ServerIdle

LoadOthersUnchanged ==
    UNCHANGED <<scoreFnVars, ratingVars, scoreVars, trendVars, levelsVars,
                predVars, indVars, pureVars, clientVars, serverVars>>

\* loadStock(symbol) up to `await StockDataService.fetchStockData(currentSymbol)`
LoadStock ==
    \E symbol \in LoadSymbols :
        /\ Len(loads) < MaxLoads
        /\ currentSymbol' = <<symbol>>
        /\ loads' = Append(loads, [pc |-> "fetchStockData", symbol |-> symbol,
                                   ohlcv |-> Null])
        /\ UNCHANGED <<currentStockData, ohlcvData, updateInterval, timers, displayed>>
        /\ LoadOthersUnchanged

\* The stock data of call i arrive: currentStockData = stockData, and the
\* OHLCV request is made for the symbol currentSymbol holds now.
StockDataArrives ==
    \E i \in 1..Len(loads) :
        /\ loads[i].pc = "fetchStockData"
        /\ currentStockData' = [symbol |-> loads[i].symbol]
        /\ loads' = [loads EXCEPT ![i].pc = "fetchOhlcv", ![i].ohlcv = currentSymbol]
        /\ UNCHANGED <<currentSymbol, ohlcvData, updateInterval, timers, displayed>>
        /\ LoadOthersUnchanged

\* startRealTimeUpdates: the timer updateInterval names is cleared and a new
\* one, numbered after the call that sets it, is started.
startRealTimeUpdates(active, interval, id) ==
    [timers |-> (IF interval # Null THEN active \ {interval[1]} ELSE active) \cup {id},
     updateInterval |-> <<id>>]

\* The OHLCV response of call i arrives (ok: its data are used; otherwise the
\* bars of stockData); then updateDisplay(stockData), updateChartWithData(),
\* performAnalysis(stockData) and startRealTimeUpdates().
OhlcvArrives ==
    \E i \in 1..Len(loads), ok \in BOOLEAN :
        /\ loads[i].pc = "fetchOhlcv"
        /\ ohlcvData' = IF ok THEN loads[i].ohlcv ELSE <<loads[i].symbol>>
        /\ displayed' = <<loads[i].symbol>>
        /\ LET started == startRealTimeUpdates(timers, updateInterval, i)
           IN  /\ timers' = started.timers
               /\ updateInterval' = started.updateInterval
        /\ loads' = [loads EXCEPT ![i].pc = "done"]
        /\ UNCHANGED <<currentSymbol, currentStockData>>
        /\ LoadOthersUnchanged

\* The callback of an active interval timer: currentStockData is updated in
\* place (its symbol stays), displayed and analysed.
IntervalFires ==
    \E id \in timers :
        /\ currentStockData # Null
        /\ displayed' = <<currentStockData.symbol>>
        /\ UNCHANGED <<currentSymbol, currentStockData, ohlcvData, updateInterval,
                       timers, loads>>
        /\ LoadOthersUnchanged

NextLoad ==
    \/ LoadStock
    \/ StockDataArrives
    \/ OhlcvArrives
    \/ IntervalFires

SpecLoad == InitLoad /\ [][NextLoad]_vars

(* Claim C30 *)

\* Every call of loadStock has completed, and there was one
Load_AllCompleted ==
    /\ Len(loads) > 0
    /\ \A i \in 1..Len(loads) : loads[i].pc = "done"

\* C30: for any interleaving of overlapping loadStock calls, once all calls
\* have completed the displayed and analysed data belong to the most recently
\* requested symbol: currentStockData.symbol equals currentSymbol, and
\* exactly one real-time update timer is active.
C30_Original ==
    Load_AllCompleted =>
        /\ currentSymbol = <<loads[Len(loads)].symbol>>
        /\ <<currentStockData.symbol>> = currentSymbol
        /\ displayed = currentSymbol
        /\ Cardinality(timers) = 1

====
